---- MODULE Spec2Model ----
(***************************************************************************)
(* Model of the iOS simulator boot benchmark: main's parsing of the        *)
(* command line, the benchmark-boot command, the per-combination runner    *)
(* (runBootBenchmark), the simctl client with its process-wide catalog     *)
(* caches, the device resolver (getDeviceId), the idle detector            *)
(* (waitForSystemIdle) and the summary printed at the end.                 *)
(*                                                                         *)
(* JavaScript strings that the code inspects (includes, startsWith,        *)
(* length) are sequences of one-character strings; strings that are only   *)
(* compared for equality (device names, udids) are atomic values.          *)
(* null is the empty sequence and a non-null value x is <<x>>.             *)
(***************************************************************************)
EXTENDS Integers, Sequences, FiniteSets, TLC

VARIABLES
  flags,
  iosVersions, deviceNames, runCount, idleThreshold, idleTimeout, spawnCommands,
  host,
  pc, vi, di, results,
  cachedRuntimes, cachedDevices,
  matchingRuntime, deviceId, i, waitSecs, ci,
  totalBootTimeMs, totalTimeToIdleMs, bootTime, elapsed, isIdle,
  oneMinuteLoad, measurements,
  error,
  ops, fetches, resolutions, outcomes, printed, tables, inFlight,
  call, sleeps

vars == <<flags, iosVersions, deviceNames, runCount, idleThreshold, idleTimeout,
          spawnCommands, host, pc, vi, di, results, cachedRuntimes,
          cachedDevices, matchingRuntime, deviceId, i, waitSecs, ci,
          totalBootTimeMs, totalTimeToIdleMs, bootTime, elapsed, isIdle,
          oneMinuteLoad, measurements, error, ops, fetches, resolutions,
          outcomes, printed, tables, inFlight, call, sleeps>>

(* The arguments of benchmarkBootCommand: assigned by main alone. *)
args == <<iosVersions, deviceNames, runCount, idleThreshold, idleTimeout,
          spawnCommands>>
(* The command line (flags), the arguments and the host: the command and   *)
(* what it calls assign none of them.                                      *)
inputs == <<args, host, flags>>
cmdVars == <<vi, di, results, outcomes, printed, tables>>
(* The caches of simctl.ts with the log of its list invocations (fetches)  *)
(* and of the calls of getDeviceId (resolutions).                          *)
cacheVars == <<cachedRuntimes, cachedDevices, fetches, resolutions>>
(* The locals of runBootBenchmark and waitForSystemIdle that hold times,   *)
(* with the log of the repetitions measured in the current call.           *)
timeVars == <<totalBootTimeMs, totalTimeToIdleMs, bootTime, elapsed, isIdle,
              oneMinuteLoad, measurements>>

(* sleeps is the log of the iterations of the stabilization loop made in  *)
(* the current call of runBootBenchmark; call is the frame of              *)
(* executeCommand when that function is run on its own.                    *)

----------------------------------------------------------------------------
(* Bounds of the model *)

MaxRuntimes == 3
MaxGroups == 2
MaxRuns == 2
MaxVersions == 2

----------------------------------------------------------------------------
(* Generic helpers *)

Null == <<>>
Some(x) == <<x>>

Min(S) == CHOOSE x \in S : \A y \in S : x <= y

SeqsUpTo(S, n) == UNION {[1..k -> S] : k \in 0..n}

Range(s) == {s[k] : k \in 1..Len(s)}

(* String.prototype.includes *)
Includes(s, sub) ==
  \E k \in 0..(Len(s) - Len(sub)) : SubSeq(s, k + 1, k + Len(sub)) = sub

(* String.prototype.startsWith *)
StartsWith(s, prefix) ==
  Len(prefix) <= Len(s) /\ SubSeq(s, 1, Len(prefix)) = prefix

----------------------------------------------------------------------------
(* Strings of the catalogs *)

StrIOS == <<"i", "O", "S">>
StrDot == <<".">>

V17 == <<"1", "7">>
V170 == <<"1", "7", ".", "0">>
V172 == <<"1", "7", ".", "2">>
V164 == <<"1", "6", ".", "4">>
V617 == <<"6", ".", "1", "7">>
V70 == <<"7", ".", "0">>
V18 == <<"1", "8">>

IosName(v) == StrIOS \o <<" ">> \o v
TvName(v) == <<"t", "v", "O", "S", " ">> \o v

Dashed(v) == [k \in 1..Len(v) |-> IF v[k] = "." THEN "-" ELSE v[k]]
Ident(v) == <<"S", "i", "m", ".">> \o StrIOS \o <<"-">> \o Dashed(v)

Runtime(id, nm, ver) ==
  [identifier |-> id, name |-> nm, version |-> ver, isAvailable |-> TRUE]

Rt170 == Runtime(Ident(V170), IosName(V170), V170)
(* a runtime whose display name does not carry its version *)
Rt172 == Runtime(Ident(V172), StrIOS \o <<" ", "b">>, V172)
Rt164 == Runtime(Ident(V164), IosName(V164), V164)
Rt17 == Runtime(Ident(V17), IosName(V17), V17)
Rt617 == Runtime(Ident(V617), IosName(V617), V617)
RtTv170 == Runtime(<<"S", "i", "m", ".", "t", "v">>, TvName(V170), V170)

RuntimePool == {Rt170, Rt172, Rt164, Rt17, Rt617, RtTv170}

VersionSpecs == {V17, V170, V172, V70, V18}

Device(nm, id, avail) ==
  [name |-> nm, udid |-> id, state |-> "Shutdown", isAvailable |-> avail]

(* The three shapes of a device group; udids are tagged with the group. *)
DeviceList(tag, shape) ==
  CASE shape = 1 -> <<Device("iPhone 11", <<tag, 1>>, TRUE)>>
    [] shape = 2 -> <<Device("iPhone 11", <<tag, 1>>, FALSE)>>
    [] shape = 3 -> <<Device("iPhone 15", <<tag, 1>>, TRUE),
                      Device("iPhone 11", <<tag, 2>>, TRUE)>>

GroupKeys ==
  <<Ident(V170), IosName(V170), IosName(V170) \o <<" ", "b">>, Ident(V164)>>

GroupPool ==
  {[key |-> GroupKeys[t], list |-> DeviceList(t, s)] :
     t \in 1..Len(GroupKeys), s \in 1..3}

(* Object.entries of the parsed devices object: the keys are distinct. *)
DeviceCatalogs(n) ==
  {c \in SeqsUpTo(GroupPool, n) :
     \A a, b \in 1..Len(c) : a # b => c[a].key # c[b].key}

----------------------------------------------------------------------------
(* simctl.ts: the resolver *)

(* getAllRuntimes keeps the runtimes whose name includes "iOS". *)
FilterIos(runtimes) ==
  SelectSeq(runtimes, LAMBDA r : Includes(r.name, StrIOS))

(* Mutant: the exact-version rule is missing. *)
RuntimeMatchesNoExact(runtime, iosVersion) ==
  \/ Includes(runtime.name, iosVersion)
  \/ /\ Len(iosVersion) = 2
     /\ ~Includes(iosVersion, StrDot)
     /\ StartsWith(runtime.version, iosVersion)

(* Mutant: the major-version prefix rule is missing. *)
RuntimeMatchesNoPrefix(runtime, iosVersion) ==
  \/ runtime.version = iosVersion
  \/ Includes(runtime.name, iosVersion)

RuntimeMatches(runtime, iosVersion) ==
  \/ runtime.version = iosVersion
  \/ Includes(runtime.name, iosVersion)
  \/ /\ Len(iosVersion) = 2
     /\ ~Includes(iosVersion, StrDot)
     /\ StartsWith(runtime.version, iosVersion)

RECURSIVE FindFrom(_, _, _)
FindFrom(runtimes, iosVersion, k) ==
  IF k > Len(runtimes) THEN 0
  ELSE IF RuntimeMatches(runtimes[k], iosVersion) THEN k
  ELSE FindFrom(runtimes, iosVersion, k + 1)

(* Mutant: the last matching runtime instead of the first. *)
FindRuntimeLast(runtimes, iosVersion) ==
  LET hits == {k \in 1..Len(runtimes) : RuntimeMatches(runtimes[k], iosVersion)}
  IN IF hits = {} THEN 0 ELSE CHOOSE k \in hits : \A m \in hits : m <= k

(* runtimes.find(...): index of the first match, 0 for undefined *)
FindRuntime(runtimes, iosVersion) == FindFrom(runtimes, iosVersion, 1)

(* Mutant: the name of the device is not looked at. *)
DeviceMatchesAnyName(device, deviceName) ==
  device.isAvailable

(* Mutant: the availability of the device is not looked at. *)
DeviceMatchesAnyAvailability(device, deviceName) ==
  device.name = deviceName

DeviceMatches(device, deviceName) ==
  device.name = deviceName /\ device.isAvailable

ExactKey(runtimeName, rt) ==
  runtimeName = rt.identifier \/ runtimeName = rt.name

LooseKey(runtimeName, rt) ==
  Includes(runtimeName, rt.version) \/ Includes(runtimeName, rt.name)

RECURSIVE ScanList(_, _, _)
ScanList(deviceList, deviceName, k) ==
  IF k > Len(deviceList) THEN Null
  ELSE IF DeviceMatches(deviceList[k], deviceName)
       THEN Some(deviceList[k].udid)
  ELSE ScanList(deviceList, deviceName, k + 1)

RECURSIVE FirstPassFrom(_, _, _, _)
FirstPassFrom(devices, rt, deviceName, g) ==
  IF g > Len(devices) THEN Null
  ELSE LET hit == IF ExactKey(devices[g].key, rt)
                  THEN ScanList(devices[g].list, deviceName, 1)
                  ELSE Null
       IN IF hit # Null THEN hit
          ELSE FirstPassFrom(devices, rt, deviceName, g + 1)

FirstPass(devices, rt, deviceName) == FirstPassFrom(devices, rt, deviceName, 1)

RECURSIVE SecondPassFrom(_, _, _, _)
SecondPassFrom(devices, rt, deviceName, g) ==
  IF g > Len(devices) THEN Null
  ELSE LET hit == IF LooseKey(devices[g].key, rt)
                  THEN ScanList(devices[g].list, deviceName, 1)
                  ELSE Null
       IN IF hit # Null THEN hit
          ELSE SecondPassFrom(devices, rt, deviceName, g + 1)

SecondPass(devices, rt, deviceName) ==
  SecondPassFrom(devices, rt, deviceName, 1)

(* Mutant: one pass over the groups that accepts an exact or a containing  *)
(* key.                                                                    *)
RECURSIVE SinglePassFrom(_, _, _, _)
SinglePassFrom(devices, rt, deviceName, g) ==
  IF g > Len(devices) THEN Null
  ELSE LET hit == IF ExactKey(devices[g].key, rt) \/ LooseKey(devices[g].key, rt)
                  THEN ScanList(devices[g].list, deviceName, 1)
                  ELSE Null
       IN IF hit # Null THEN hit
          ELSE SinglePassFrom(devices, rt, deviceName, g + 1)

FindDeviceSinglePass(devices, rt, deviceName) ==
  SinglePassFrom(devices, rt, deviceName, 1)

(* Mutant: the fallback pass is missing. *)
FindDeviceFirstPassOnly(devices, rt, deviceName) ==
  FirstPass(devices, rt, deviceName)

(* The device lookup of getDeviceId once a runtime is selected. *)
FindDevice(devices, rt, deviceName) ==
  LET first == FirstPass(devices, rt, deviceName)
  IN IF first # Null THEN first ELSE SecondPass(devices, rt, deviceName)

(* One Deno.Command(...).output() of a catalog listing: the code reads     *)
(* stdout and parses it without looking at the exit status, so the call    *)
(* either yields a catalog or throws (spawn failure, JSON.parse error).    *)
FetchOutcomes == {"ok", "throw"}

(* One Deno.Command(...).output() of a lifecycle operation: exit status 0, *)
(* a non-zero exit status, or output() itself throwing.                    *)
CallOutcomes == {"ok", "fail", "throw"}

(* Mutant: getAllRuntimes lists the runtimes at every call. *)
GetAllRuntimesNoCache(cache, out) ==
  IF out = "throw"
  THEN [err |-> "Other", value |-> <<>>, cache |-> cache, calls |-> 1]
  ELSE LET v == FilterIos(host.runtimes)
       IN [err |-> "none", value |-> v, cache |-> Some(v), calls |-> 1]

(* getAllRuntimes: cached value, or one list-runtimes invocation. *)
GetAllRuntimes(cache, out) ==
  IF cache # Null
  THEN [err |-> "none", value |-> cache[1], cache |-> cache, calls |-> 0]
  ELSE IF out = "throw"
  THEN [err |-> "Other", value |-> <<>>, cache |-> Null, calls |-> 1]
  ELSE LET v == FilterIos(host.runtimes)
       IN [err |-> "none", value |-> v, cache |-> Some(v), calls |-> 1]

(* Mutant: getAllDevices lists the devices at every call. *)
GetAllDevicesNoCache(cache, out) ==
  IF out = "throw"
  THEN [err |-> "Other", value |-> <<>>, cache |-> cache, calls |-> 1]
  ELSE [err |-> "none", value |-> host.devices, cache |-> Some(host.devices),
        calls |-> 1]

(* getAllDevices: cached value, or one list-devices invocation. *)
GetAllDevices(cache, out) ==
  IF cache # Null
  THEN [err |-> "none", value |-> cache[1], cache |-> cache, calls |-> 0]
  ELSE IF out = "throw"
  THEN [err |-> "Other", value |-> <<>>, cache |-> Null, calls |-> 1]
  ELSE [err |-> "none", value |-> host.devices, cache |-> Some(host.devices),
        calls |-> 1]

(* The error class of a failed resolution. *)
ResolutionError == "Soft"

(* getDeviceId: err is "none" and udid the result, or err is the class of  *)
(* the error thrown; the caches and the number of list invocations issued  *)
(* are returned with it.                                                   *)
GetDeviceId(iosVersion, deviceName, rCache, dCache, outR, outD) ==
  LET rs == GetAllRuntimes(rCache, outR)
      m == IF rs.err = "none" THEN FindRuntime(rs.value, iosVersion) ELSE 0
      base == [err |-> rs.err, udid |-> Null, matching |-> m,
               rCache |-> rs.cache, dCache |-> dCache,
               rCalls |-> rs.calls, dCalls |-> 0]
  IN IF rs.err # "none" THEN base
     ELSE IF m = 0 THEN [base EXCEPT !.err = ResolutionError]
     ELSE LET ds == GetAllDevices(dCache, outD)
              withD == [base EXCEPT !.dCache = ds.cache, !.dCalls = ds.calls]
          IN IF ds.err # "none" THEN [withD EXCEPT !.err = ds.err]
             ELSE LET hit == FindDevice(ds.value, rs.value[m], deviceName)
                  IN IF hit # Null THEN [withD EXCEPT !.udid = hit[1]]
                     ELSE [withD EXCEPT !.err = ResolutionError]

(* The error thrown by eraseDevice, measureBootTime's boot and launch and  *)
(* shutdownDevice for an outcome of their invocation.                      *)
SimctlError(out) ==
  CASE out = "ok" -> "none"
    [] out = "fail" -> "Hard"
    [] out = "throw" -> "Other"

(* The error thrown by executeCommand(command, critical). *)
ExecuteCommand(out, critical) ==
  IF out = "ok" THEN "none" ELSE IF critical THEN "Hard" ELSE "Soft"

Booted == <<"booted">>

Op(name, id, out) == [op |-> name, id |-> id, rep |-> i, res |-> out]

(* The awaited call that the program is at: an invocation of the control   *)
(* utility, or for "gather" and "resolve" the catalog fetches of           *)
(* getAllRuntimes and getDeviceId.                                         *)
InvocationSites ==
  {"gather", "resolve", "erase", "boot", "spawn", "launch", "shutdown",
   "recovery"}

Invocation ==
  [site |-> pc, combination |-> Len(outcomes) + 1, rep |-> i, command |-> ci]

(* Mutant: the program goes on while the invocation has not returned (a    *)
(* call without await).                                                    *)
ReturnedLater == inFlight

(* await: the program goes on when the invocation has returned *)
Returned == inFlight \ {Invocation}

(* An invocation made between startTime and endTime of measureBootTime,    *)
(* with the time it took *)
Timed(o, d) ==
  [op |-> o.op, id |-> o.id, rep |-> o.rep, res |-> o.res, dur |-> d]

(* f[1] + ... + f[k] *)
RECURSIVE SumOver(_, _)
SumOver(f, k) == IF k = 0 THEN 0 ELSE f[k] + SumOver(f, k - 1)

(* The time taken by the invocations named in names during repetition r *)
DurationOf(names, r) ==
  SumOver([k \in 1..Len(ops) |->
             IF ops[k].rep = r /\ ops[k].op \in names
             THEN ops[k].dur ELSE 0],
          Len(ops))

(* total / runCount of JavaScript, kept as the fraction (0/0 is NaN) *)
Mean(total, n) == [num |-> total, den |-> n]

(* 0 / 0 *)
IsNaN(m) == m.num = 0 /\ m.den = 0

Sign(n) == IF n > 0 THEN 1 ELSE IF n < 0 THEN -1 ELSE 0

(* Math.round(ms / 1000) for ms >= 0 *)
RoundSeconds(ms) == (ms + 500) \div 1000

StabilizeWindowSecs == 60
StabilizeStepSecs == 10
IdleGraceSecs == 10
IdlePollMs == 3000

----------------------------------------------------------------------------
(* main.ts: main *)

Digits == <<"0", "1", "2", "3", "4", "5", "6", "7", "8", "9">>

IsDigit(c) == \E d \in 1..10 : Digits[d] = c

DigitValue(c) == (CHOOSE d \in 1..10 : Digits[d] = c) - 1

(* The value of a sequence of digits *)
RECURSIVE DecimalValue(_)
DecimalValue(ds) ==
  IF ds = <<>> THEN 0
  ELSE 10 * DecimalValue(SubSeq(ds, 1, Len(ds) - 1)) + DigitValue(ds[Len(ds)])

IsSign(c) == c \in {"-", "+"}

Unsigned(text) ==
  IF text # <<>> /\ IsSign(text[1]) THEN SubSeq(text, 2, Len(text)) ELSE text

(* The longest prefix of text made of digits *)
RECURSIVE DigitPrefix(_)
DigitPrefix(text) ==
  IF text = <<>> \/ ~IsDigit(text[1]) THEN <<>>
  ELSE <<text[1]>> \o DigitPrefix(SubSeq(text, 2, Len(text)))

(* parseInt(text): an optional sign and the digits that follow it; what    *)
(* comes after the digits is ignored and without a digit the result is NaN *)
ParseInt(text) ==
  LET ds == DigitPrefix(Unsigned(text))
  IN IF ds = <<>> THEN "NaN"
     ELSE IF text[1] = "-" THEN 0 - DecimalValue(ds) ELSE DecimalValue(ds)

(* parseFloat(text), for texts without a fraction and an exponent *)
ParseFloat(text) == ParseInt(text)

(* parseArgs: the test for a numeric value (an optional sign and digits;   *)
(* texts with a fraction, an exponent or a hexadecimal prefix are not      *)
(* among the values of the model)                                          *)
IsNumber(text) ==
  /\ Unsigned(text) # <<>>
  /\ DigitPrefix(Unsigned(text)) = Unsigned(text)

(* parseArgs: the value of a flag that takes one value. raw is null for a  *)
(* flag that is not on the command line, else the text given with it. A    *)
(* flag named in the string option keeps its text; the text of any other   *)
(* flag is converted to a number when it is numeric.                       *)
ParseFlag(raw, isString) ==
  IF raw = Null THEN [type |-> "undefined"]
  ELSE IF ~isString /\ IsNumber(raw[1])
  THEN [type |-> "number", value |-> ParseInt(raw[1])]
  ELSE [type |-> "string", value |-> raw[1]]

(* The flags named in the string option of main's parseArgs call *)
StringFlags == {"ios", "device", "runs", "idle-threshold", "spawn-after-boot"}

DefaultRunCount == 1
DefaultIdleThreshold == 2
DefaultIdleTimeout == 300

(* Mutant: idle-timeout is declared a string flag like the others. *)
MainDeclaresIdleTimeout ==
  /\ pc = "main"
  /\ LET runs == ParseFlag(flags.runs, "runs" \in StringFlags)
         threshold == ParseFlag(flags.idleThreshold,
                                "idle-threshold" \in StringFlags)
         timeout == ParseFlag(flags.idleTimeout, TRUE)
     IN /\ iosVersions' = flags.ios
        /\ deviceNames' = flags.device
        /\ runCount' = IF runs.type = "string"
                       THEN ParseInt(runs.value) ELSE DefaultRunCount
        /\ idleThreshold' = IF threshold.type = "string"
                            THEN ParseFloat(threshold.value)
                            ELSE DefaultIdleThreshold
        /\ idleTimeout' = IF timeout.type = "string"
                          THEN ParseInt(timeout.value)
                          ELSE DefaultIdleTimeout
        /\ spawnCommands' = Some(flags.spawn)
  /\ pc' = "start"
  /\ UNCHANGED <<host, flags, cmdVars, cacheVars, timeVars, matchingRuntime,
                 deviceId, i, waitSecs, ci, error, ops>>
  /\ UNCHANGED <<inFlight, call, sleeps>>

(* main: the benchmark-boot case up to the call of benchmarkBootCommand.   *)
(* The flags collected into arrays (ios, device, spawn-after-boot) are     *)
(* empty arrays when absent.                                               *)
Main ==
  /\ pc = "main"
  /\ LET runs == ParseFlag(flags.runs, "runs" \in StringFlags)
         threshold == ParseFlag(flags.idleThreshold,
                                "idle-threshold" \in StringFlags)
         timeout == ParseFlag(flags.idleTimeout,
                              "idle-timeout" \in StringFlags)
     IN /\ iosVersions' = flags.ios
        /\ deviceNames' = flags.device
        /\ runCount' = IF runs.type = "string"
                       THEN ParseInt(runs.value) ELSE DefaultRunCount
        /\ idleThreshold' = IF threshold.type = "string"
                            THEN ParseFloat(threshold.value)
                            ELSE DefaultIdleThreshold
        /\ idleTimeout' = IF timeout.type = "string"
                          THEN ParseInt(timeout.value)
                          ELSE DefaultIdleTimeout
        /\ spawnCommands' = Some(flags.spawn)
  /\ pc' = "start"
  /\ UNCHANGED <<host, flags, cmdVars, cacheVars, timeVars, matchingRuntime,
                 deviceId, i, waitSecs, ci, error, ops>>
  /\ UNCHANGED <<inFlight, call, sleeps>>

----------------------------------------------------------------------------
(* commands.ts: benchmarkBootCommand *)

NumCombinations == Len(iosVersions) * Len(deviceNames)

(* The loop indices after one more combination. *)
NextVi == IF di < Len(deviceNames) THEN vi ELSE vi + 1
NextDi == IF di < Len(deviceNames) THEN di + 1 ELSE 1

BenchmarkBootCommand ==
  /\ pc = "start"
  /\ pc' = IF Len(iosVersions) = 0 \/ Len(deviceNames) = 0
           THEN "exit" ELSE "gather"
  /\ UNCHANGED <<inputs, cmdVars, cacheVars, timeVars, matchingRuntime,
                 deviceId, i, waitSecs, ci, error, ops>>
  /\ UNCHANGED <<inFlight, call, sleeps>>

GatherRuntimes ==
  /\ pc = "gather"
  /\ \E out \in FetchOutcomes :
       LET r == GetAllRuntimes(cachedRuntimes, out)
       IN /\ cachedRuntimes' = r.cache
          /\ fetches' = [fetches EXCEPT !.runtimes = @ + r.calls]
          /\ pc' = IF r.err = "none" THEN "loop" ELSE "crashed"
  /\ UNCHANGED <<inputs, cmdVars, cachedDevices, resolutions, timeVars,
                 matchingRuntime, deviceId, i, waitSecs, ci, error, ops>>
  /\ inFlight' = Returned
  /\ UNCHANGED <<call, sleeps>>

(* The call of runBootBenchmark for the next combination. *)
CallRunBootBenchmark ==
  /\ pc = "loop"
  /\ vi <= Len(iosVersions)
  /\ pc' = "resolve"
  /\ ops' = <<>>
  /\ error' = "none"
  /\ matchingRuntime' = 0
  /\ deviceId' = Null
  /\ i' = 0
  /\ waitSecs' = 0
  /\ ci' = 0
  /\ totalBootTimeMs' = 0
  /\ totalTimeToIdleMs' = 0
  /\ bootTime' = 0
  /\ elapsed' = 0
  /\ isIdle' = FALSE
  /\ oneMinuteLoad' = 0
  /\ measurements' = <<>>
  /\ sleeps' = <<>>
  /\ UNCHANGED <<inputs, cmdVars, cacheVars>>
  /\ UNCHANGED <<inFlight, call>>

LoopDone ==
  /\ pc = "loop"
  /\ vi > Len(iosVersions)
  /\ pc' = "finally"
  /\ UNCHANGED <<inputs, cmdVars, cacheVars, timeVars, matchingRuntime,
                 deviceId, i, waitSecs, ci, error, ops>>
  /\ UNCHANGED <<inFlight, call, sleeps>>

(* reporting.ts: (ms / 1000).toFixed(1) of an average kept as a fraction,  *)
(* as the number of tenths of a second (rounded half up)                   *)
ToFixed1(m) ==
  IF IsNaN(m) THEN "NaN"
  ELSE IF m.den = 0 THEN "Infinity"
  ELSE LET n == m.num * Sign(m.den)
           d == m.den * Sign(m.den)
       IN IF n >= 0 THEN (n + 50 * d) \div (100 * d)
          ELSE 0 - ((50 * d - n) \div (100 * d))

(* reporting.ts: the row of printResultTable for one result; a             *)
(* timeToIdleMs of 0 or NaN is falsy                                       *)
Row(result) ==
  [iosVersion |-> result.iosVersion,
   bootTime |-> ToFixed1(result.bootTimeMs),
   timeToIdle |-> IF result.timeToIdleMs.num = 0 THEN "N/A"
                  ELSE ToFixed1(result.timeToIdleMs)]

(* reporting.ts: printResultTable, the rows handed to console.table *)
PrintResultTable(rs) == [k \in 1..Len(rs) |-> Row(rs[k])]

(* The keys of a Map to which the keys ks were added in this order *)
RECURSIVE MapKeys(_)
MapKeys(ks) ==
  IF ks = <<>> THEN <<>>
  ELSE LET keys == MapKeys(SubSeq(ks, 1, Len(ks) - 1))
           key == ks[Len(ks)]
       IN IF \E k \in 1..Len(keys) : keys[k] = key
          THEN keys
          ELSE Append(keys, key)

(* Mutant: a device's group is replaced, not extended, by each result. *)
GroupResultsByDeviceLastOnly(rs) ==
  LET keys == MapKeys([k \in 1..Len(rs) |-> rs[k].deviceName])
  IN [g \in 1..Len(keys) |->
        [key |-> keys[g],
         results |->
           LET all == SelectSeq(rs, LAMBDA r : r.deviceName = keys[g])
           IN <<all[Len(all)]>>]]

(* reporting.ts: groupResultsByDevice *)
GroupResultsByDevice(rs) ==
  LET keys == MapKeys([k \in 1..Len(rs) |-> rs[k].deviceName])
  IN [g \in 1..Len(keys) |->
        [key |-> keys[g],
         results |-> SelectSeq(rs, LAMBDA r : r.deviceName = keys[g])]]

(* reporting.ts: printBenchmarkSummary, the tables printed (its header     *)
(* lines are left out); a table has the device line printed above it or    *)
(* none.                                                                   *)
PrintBenchmarkSummary(rs, names) ==
  IF Len(rs) = 0 THEN <<>>
  ELSE IF Len(names) = 1
  THEN <<[device |-> Null, rows |-> PrintResultTable(rs)]>>
  ELSE LET deviceGroups == GroupResultsByDevice(rs)
       IN [g \in 1..Len(deviceGroups) |->
             [device |-> Some(deviceGroups[g].key),
              rows |-> PrintResultTable(deviceGroups[g].results)]]

(* Mutant: the summary is printed only when no combination failed. *)
FinallyOnlyIfAllSucceeded ==
  /\ pc = "finally"
  /\ IF Len(results) > 0 /\ Len(results) = Len(outcomes)
     THEN /\ printed' = "table"
          /\ tables' = PrintBenchmarkSummary(results, deviceNames)
     ELSE /\ printed' = "notice"
          /\ tables' = <<>>
  /\ pc' = "done"
  /\ UNCHANGED <<inputs, vi, di, results, outcomes, cacheVars, timeVars,
                 matchingRuntime, deviceId, i, waitSecs, ci, error, ops>>
  /\ UNCHANGED <<inFlight, call, sleeps>>

Finally ==
  /\ pc = "finally"
  /\ IF Len(results) > 0
     THEN /\ printed' = "table"
          /\ tables' = PrintBenchmarkSummary(results, deviceNames)
     ELSE /\ printed' = "notice"
          /\ tables' = <<>>
  /\ pc' = "done"
  /\ UNCHANGED <<inputs, vi, di, results, outcomes, cacheVars, timeVars,
                 matchingRuntime, deviceId, i, waitSecs, ci, error, ops>>
  /\ UNCHANGED <<inFlight, call, sleeps>>

----------------------------------------------------------------------------
(* benchmark.ts: runBootBenchmark *)

ResolveDevice ==
  /\ pc = "resolve"
  /\ \E outR, outD \in FetchOutcomes :
       LET r == GetDeviceId(iosVersions[vi], deviceNames[di],
                            cachedRuntimes, cachedDevices, outR, outD)
       IN /\ cachedRuntimes' = r.rCache
          /\ cachedDevices' = r.dCache
          /\ fetches' = [runtimes |-> fetches.runtimes + r.rCalls,
                         devices |-> fetches.devices + r.dCalls]
          /\ resolutions' = Append(resolutions,
                                [iosVersion |-> iosVersions[vi],
                                 deviceName |-> deviceNames[di],
                                 err |-> r.err,
                                 runtime |-> r.matching,
                                 udid |-> r.udid,
                                 runtimes |-> r.rCalls,
                                 devices |-> r.dCalls])
          /\ matchingRuntime' = r.matching
          /\ deviceId' = IF r.err = "none" THEN r.udid ELSE Null
          /\ error' = r.err
          /\ pc' = IF r.err = "none" THEN "for" ELSE "catch"
  /\ UNCHANGED <<inputs, cmdVars, timeVars, i, waitSecs, ci, ops>>
  /\ inFlight' = Returned
  /\ UNCHANGED <<call, sleeps>>

ForLoop ==
  /\ pc = "for"
  /\ pc' = IF i < runCount
           THEN (IF i > 0 THEN "stabilize" ELSE "erase")
           ELSE "return"
  /\ waitSecs' = 0
  /\ UNCHANGED <<inputs, cmdVars, cacheVars, timeVars, matchingRuntime,
                 deviceId, i, ci, error, ops>>
  /\ UNCHANGED <<inFlight, call, sleeps>>

(* Mutant: the wait ends as soon as a sample is below the idle threshold. *)
StabilizeUntilCalm ==
  /\ pc = "stabilize"
  /\ waitSecs < StabilizeWindowSecs
  /\ \E load \in host.loads :
       /\ waitSecs' = waitSecs + StabilizeStepSecs
       /\ sleeps' = Append(sleeps, [rep |-> i, secs |-> StabilizeStepSecs,
                                    samples |-> 1])
       /\ pc' = IF waitSecs' < StabilizeWindowSecs /\ ~(load < idleThreshold)
                THEN "stabilize" ELSE "erase"
  /\ UNCHANGED <<inputs, cmdVars, cacheVars, timeVars, matchingRuntime,
                 deviceId, i, ci, error, ops>>
  /\ UNCHANGED <<inFlight, call>>

(* One iteration of the stabilization loop: the sleep, waitSecs += 10 and  *)
(* the load sample, which is only printed.                                 *)
Stabilize ==
  /\ pc = "stabilize"
  /\ waitSecs < StabilizeWindowSecs
  /\ \E load \in host.loads :
       /\ waitSecs' = waitSecs + StabilizeStepSecs
       /\ sleeps' = Append(sleeps, [rep |-> i, secs |-> StabilizeStepSecs,
                                    samples |-> 1])
       /\ pc' = IF waitSecs' < StabilizeWindowSecs THEN "stabilize" ELSE "erase"
  /\ UNCHANGED <<inputs, cmdVars, cacheVars, timeVars, matchingRuntime,
                 deviceId, i, ci, error, ops>>
  /\ UNCHANGED <<inFlight, call>>

(* Mutant: the erase targets the device resolved by the first call. *)
EraseDeviceFirstResolved ==
  /\ pc = "erase"
  /\ \E out \in CallOutcomes :
       /\ ops' = Append(ops, Op("erase", resolutions[1].udid, out))
       /\ error' = SimctlError(out)
       /\ pc' = IF out = "ok" THEN "boot" ELSE "catch"
  /\ UNCHANGED <<inputs, cmdVars, cacheVars, timeVars, matchingRuntime,
                 deviceId, i, waitSecs, ci>>
  /\ inFlight' = Returned
  /\ UNCHANGED <<call, sleeps>>

(* Mutant: the boot follows the erase whether or not the erase succeeded. *)
EraseDeviceIgnoresFailure ==
  /\ pc = "erase"
  /\ \E out \in CallOutcomes :
       /\ ops' = Append(ops, Op("erase", deviceId, out))
       /\ error' = "none"
       /\ pc' = "boot"
  /\ UNCHANGED <<inputs, cmdVars, cacheVars, timeVars, matchingRuntime,
                 deviceId, i, waitSecs, ci>>
  /\ inFlight' = Returned
  /\ UNCHANGED <<call, sleeps>>

EraseDevice ==
  /\ pc = "erase"
  /\ \E out \in CallOutcomes :
       /\ ops' = Append(ops, Op("erase", deviceId, out))
       /\ error' = SimctlError(out)
       /\ pc' = IF out = "ok" THEN "boot" ELSE "catch"
  /\ UNCHANGED <<inputs, cmdVars, cacheVars, timeVars, matchingRuntime,
                 deviceId, i, waitSecs, ci>>
  /\ inFlight' = Returned
  /\ UNCHANGED <<call, sleeps>>

HasCommands == spawnCommands # Null /\ Len(spawnCommands[1]) > 0

(* measureBootTime: the bootstatus invocation, timed from startTime *)
Boot ==
  /\ pc = "boot"
  /\ \E out \in CallOutcomes, d \in host.durs :
       /\ ops' = Append(ops, Timed(Op("boot", deviceId, out), d))
       /\ error' = SimctlError(out)
       /\ elapsed' = d
       /\ pc' = IF out # "ok" THEN "catch"
                ELSE IF HasCommands THEN "spawn" ELSE "launch"
  /\ ci' = 1
  /\ UNCHANGED <<inputs, cmdVars, cacheVars, totalBootTimeMs,
                 totalTimeToIdleMs, bootTime, isIdle, oneMinuteLoad,
                 measurements, matchingRuntime, deviceId, i, waitSecs>>
  /\ inFlight' = Returned
  /\ UNCHANGED <<call, sleeps>>

(* The invocation of executeCommand for a post-boot command *)
Spawned(o, c) ==
  [op |-> o.op, id |-> o.id, rep |-> o.rep, res |-> o.res, dur |-> o.dur,
   command |-> c]

(* Mutant: the post-boot commands are executed as non-critical. *)
SpawnNonCritical ==
  /\ pc = "spawn"
  /\ \E out \in CallOutcomes, d \in host.durs :
       /\ ops' = Append(ops, Spawned(Timed(Op("spawn", Booted, out), d),
                                    spawnCommands[1][ci]))
       /\ error' = ExecuteCommand(out, FALSE)
       /\ elapsed' = elapsed + d
       /\ pc' = IF out # "ok" THEN "catch"
                ELSE IF ci < Len(spawnCommands[1]) THEN "spawn" ELSE "launch"
  /\ ci' = ci + 1
  /\ UNCHANGED <<inputs, cmdVars, cacheVars, totalBootTimeMs,
                 totalTimeToIdleMs, bootTime, isIdle, oneMinuteLoad,
                 measurements, matchingRuntime, deviceId, i, waitSecs>>
  /\ inFlight' = Returned
  /\ UNCHANGED <<call, sleeps>>

(* measureBootTime: executeCommand(commands[ci], true) *)
Spawn ==
  /\ pc = "spawn"
  /\ \E out \in CallOutcomes, d \in host.durs :
       /\ ops' = Append(ops, Spawned(Timed(Op("spawn", Booted, out), d),
                                    spawnCommands[1][ci]))
       /\ error' = ExecuteCommand(out, TRUE)
       /\ elapsed' = elapsed + d
       /\ pc' = IF out # "ok" THEN "catch"
                ELSE IF ci < Len(spawnCommands[1]) THEN "spawn" ELSE "launch"
  /\ ci' = ci + 1
  /\ UNCHANGED <<inputs, cmdVars, cacheVars, totalBootTimeMs,
                 totalTimeToIdleMs, bootTime, isIdle, oneMinuteLoad,
                 measurements, matchingRuntime, deviceId, i, waitSecs>>
  /\ inFlight' = Returned
  /\ UNCHANGED <<call, sleeps>>

(* Mutant: endTime is taken when bootstatus returns, before the post-boot  *)
(* commands and the launch.                                                *)
LaunchUntimed ==
  /\ pc = "launch"
  /\ \E out \in CallOutcomes, d \in host.durs :
       /\ ops' = Append(ops, Timed(Op("launch", Booted, out), d))
       /\ error' = SimctlError(out)
       /\ IF out = "ok"
          THEN /\ bootTime' = DurationOf({"boot"}, i)
               /\ totalBootTimeMs' = totalBootTimeMs + DurationOf({"boot"}, i)
               /\ elapsed' = 0
               /\ isIdle' = FALSE
               /\ pc' = "idle"
          ELSE /\ UNCHANGED <<bootTime, totalBootTimeMs, isIdle>>
               /\ elapsed' = elapsed + d
               /\ pc' = "catch"
  /\ UNCHANGED <<inputs, cmdVars, cacheVars, totalTimeToIdleMs,
                 oneMinuteLoad, measurements, matchingRuntime, deviceId, i,
                 waitSecs, ci>>
  /\ inFlight' = Returned
  /\ UNCHANGED <<call, sleeps>>

(* measureBootTime: the launch of Settings, the return of endTime -        *)
(* startTime and, in the runner, totalBootTimeMs += bootTime; then the     *)
(* start of waitForSystemIdle.                                             *)
Launch ==
  /\ pc = "launch"
  /\ \E out \in CallOutcomes, d \in host.durs :
       /\ ops' = Append(ops, Timed(Op("launch", Booted, out), d))
       /\ error' = SimctlError(out)
       /\ IF out = "ok"
          THEN /\ bootTime' = elapsed + d
               /\ totalBootTimeMs' = totalBootTimeMs + elapsed + d
               /\ elapsed' = 0
               /\ isIdle' = FALSE
               /\ pc' = "idle"
          ELSE /\ UNCHANGED <<bootTime, totalBootTimeMs, isIdle>>
               /\ elapsed' = elapsed + d
               /\ pc' = "catch"
  /\ UNCHANGED <<inputs, cmdVars, cacheVars, totalTimeToIdleMs,
                 oneMinuteLoad, measurements, matchingRuntime, deviceId, i,
                 waitSecs, ci>>
  /\ inFlight' = Returned
  /\ UNCHANGED <<call, sleeps>>

(* Mutant: the loop of waitForSystemIdle has no deadline. *)
IdlePollNoDeadline ==
  /\ pc = "idle"
  /\ ~isIdle
  /\ \E load \in host.loads, jitter \in host.jitters :
       /\ oneMinuteLoad' = load
       /\ IF load < idleThreshold /\ RoundSeconds(elapsed) > IdleGraceSecs
          THEN isIdle' = TRUE /\ elapsed' = elapsed
          ELSE isIdle' = FALSE /\ elapsed' = elapsed + IdlePollMs + jitter
  /\ UNCHANGED <<inputs, cmdVars, cacheVars, totalBootTimeMs,
                 totalTimeToIdleMs, bootTime, measurements, matchingRuntime,
                 deviceId, i, waitSecs, ci, error, ops, pc>>
  /\ UNCHANGED <<inFlight, call, sleeps>>

(* Mutant: the sleep between two samples is two poll intervals long. *)
IdlePollLongSleep ==
  /\ pc = "idle"
  /\ ~isIdle /\ elapsed < idleTimeout * 1000
  /\ \E load \in host.loads, jitter \in host.jitters :
       /\ oneMinuteLoad' = load
       /\ IF load < idleThreshold /\ RoundSeconds(elapsed) > IdleGraceSecs
          THEN isIdle' = TRUE /\ elapsed' = elapsed
          ELSE isIdle' = FALSE /\ elapsed' = elapsed + 2 * IdlePollMs + jitter
  /\ UNCHANGED <<inputs, cmdVars, cacheVars, totalBootTimeMs,
                 totalTimeToIdleMs, bootTime, measurements, matchingRuntime,
                 deviceId, i, waitSecs, ci, error, ops, pc>>
  /\ UNCHANGED <<inFlight, call, sleeps>>

(* Mutant: a load equal to the threshold counts as idle. *)
IdlePollAtOrBelow ==
  /\ pc = "idle"
  /\ ~isIdle /\ elapsed < idleTimeout * 1000
  /\ \E load \in host.loads, jitter \in host.jitters :
       /\ oneMinuteLoad' = load
       /\ IF load <= idleThreshold /\ RoundSeconds(elapsed) > IdleGraceSecs
          THEN isIdle' = TRUE /\ elapsed' = elapsed
          ELSE isIdle' = FALSE /\ elapsed' = elapsed + IdlePollMs + jitter
  /\ UNCHANGED <<inputs, cmdVars, cacheVars, totalBootTimeMs,
                 totalTimeToIdleMs, bootTime, measurements, matchingRuntime,
                 deviceId, i, waitSecs, ci, error, ops, pc>>
  /\ UNCHANGED <<inFlight, call, sleeps>>

(* Mutant: idle is declared without the grace period. *)
IdlePollNoGrace ==
  /\ pc = "idle"
  /\ ~isIdle /\ elapsed < idleTimeout * 1000
  /\ \E load \in host.loads, jitter \in host.jitters :
       /\ oneMinuteLoad' = load
       /\ IF load < idleThreshold
          THEN isIdle' = TRUE /\ elapsed' = elapsed
          ELSE isIdle' = FALSE /\ elapsed' = elapsed + IdlePollMs + jitter
  /\ UNCHANGED <<inputs, cmdVars, cacheVars, totalBootTimeMs,
                 totalTimeToIdleMs, bootTime, measurements, matchingRuntime,
                 deviceId, i, waitSecs, ci, error, ops, pc>>
  /\ UNCHANGED <<inFlight, call, sleeps>>

(* waitForSystemIdle: one iteration of the polling loop. elapsed is the    *)
(* time since startTime at the test of the loop condition; the sample and  *)
(* the comparison take no time, the sleep takes its delay and the lateness *)
(* of the timer.                                                           *)
IdlePoll ==
  /\ pc = "idle"
  /\ ~isIdle /\ elapsed < idleTimeout * 1000
  /\ \E load \in host.loads, jitter \in host.jitters :
       /\ oneMinuteLoad' = load
       /\ IF load < idleThreshold /\ RoundSeconds(elapsed) > IdleGraceSecs
          THEN isIdle' = TRUE /\ elapsed' = elapsed
          ELSE isIdle' = FALSE /\ elapsed' = elapsed + IdlePollMs + jitter
  /\ UNCHANGED <<inputs, cmdVars, cacheVars, totalBootTimeMs,
                 totalTimeToIdleMs, bootTime, measurements, matchingRuntime,
                 deviceId, i, waitSecs, ci, error, ops, pc>>
  /\ UNCHANGED <<inFlight, call, sleeps>>

(* Mutant: a wait that ends at the deadline raises a Hard error. *)
IdleReturnThrowsOnTimeout ==
  /\ pc = "idle"
  /\ ~(~isIdle /\ elapsed < idleTimeout * 1000)
  /\ IF isIdle
     THEN /\ totalTimeToIdleMs' = totalTimeToIdleMs + bootTime + elapsed
          /\ measurements' = Append(measurements,
                                    [bootTime |-> bootTime,
                                     timeToIdle |-> elapsed,
                                     idle |-> isIdle])
          /\ pc' = "shutdown"
          /\ UNCHANGED error
     ELSE /\ error' = "Hard"
          /\ pc' = "catch"
          /\ UNCHANGED <<totalTimeToIdleMs, measurements>>
  /\ oneMinuteLoad' = 0
  /\ UNCHANGED <<inputs, cmdVars, cacheVars, totalBootTimeMs, bootTime,
                 elapsed, isIdle, matchingRuntime, deviceId, i, waitSecs, ci,
                 ops>>
  /\ UNCHANGED <<inFlight, call, sleeps>>

(* waitForSystemIdle returns endTime - startTime; the runner accumulates *)
IdleReturn ==
  /\ pc = "idle"
  /\ ~(~isIdle /\ elapsed < idleTimeout * 1000)
  /\ totalTimeToIdleMs' = totalTimeToIdleMs + bootTime + elapsed
  /\ measurements' = Append(measurements,
                            [bootTime |-> bootTime,
                             timeToIdle |-> elapsed,
                             idle |-> isIdle])
  /\ oneMinuteLoad' = 0
  /\ pc' = "shutdown"
  /\ UNCHANGED <<inputs, cmdVars, cacheVars, totalBootTimeMs, bootTime,
                 elapsed, isIdle, matchingRuntime, deviceId, i, waitSecs, ci,
                 error, ops>>
  /\ UNCHANGED <<inFlight, call, sleeps>>

ShutdownDevice ==
  /\ pc = "shutdown"
  /\ \E out \in CallOutcomes :
       /\ ops' = Append(ops, Op("shutdown", deviceId, out))
       /\ error' = SimctlError(out)
       /\ i' = IF out = "ok" THEN i + 1 ELSE i
       /\ pc' = IF out = "ok" THEN "for" ELSE "catch"
  /\ UNCHANGED <<inputs, cmdVars, cacheVars, timeVars, matchingRuntime,
                 deviceId, waitSecs, ci>>
  /\ inFlight' = Returned
  /\ UNCHANGED <<call, sleeps>>

(* Mutant: the averages are taken from the last repetition alone. *)
ReturnResultLastOnly ==
  /\ pc = "return"
  /\ results' = Append(results,
                  [iosVersion |-> iosVersions[vi],
                   deviceName |-> deviceNames[di],
                   bootTimeMs |-> Mean(bootTime, runCount),
                   runs |-> runCount,
                   timeToIdleMs |-> Mean(bootTime + elapsed, runCount)])
  /\ outcomes' = Append(outcomes, "result")
  /\ vi' = NextVi
  /\ di' = NextDi
  /\ pc' = "loop"
  /\ UNCHANGED <<inputs, printed, tables, cacheVars, timeVars, matchingRuntime,
                 deviceId, i, waitSecs, ci, error, ops>>
  /\ UNCHANGED <<inFlight, call, sleeps>>

(* Mutant: the result is put at the head of the list. *)
ReturnResultUnshift ==
  /\ pc = "return"
  /\ results' = <<[iosVersion |-> iosVersions[vi],
                  deviceName |-> deviceNames[di],
                  bootTimeMs |-> Mean(totalBootTimeMs, runCount),
                  runs |-> runCount,
                  timeToIdleMs |-> Mean(totalTimeToIdleMs, runCount)]>>
                \o results
  /\ outcomes' = Append(outcomes, "result")
  /\ vi' = NextVi
  /\ di' = NextDi
  /\ pc' = "loop"
  /\ UNCHANGED <<inputs, printed, tables, cacheVars, timeVars, matchingRuntime,
                 deviceId, i, waitSecs, ci, error, ops>>
  /\ UNCHANGED <<inFlight, call, sleeps>>

(* return {...}; in the command: if (result) results.push(result) *)
ReturnResult ==
  /\ pc = "return"
  /\ results' = Append(results,
                  [iosVersion |-> iosVersions[vi],
                   deviceName |-> deviceNames[di],
                   bootTimeMs |-> Mean(totalBootTimeMs, runCount),
                   runs |-> runCount,
                   timeToIdleMs |-> Mean(totalTimeToIdleMs, runCount)])
  /\ outcomes' = Append(outcomes, "result")
  /\ vi' = NextVi
  /\ di' = NextDi
  /\ pc' = "loop"
  /\ UNCHANGED <<inputs, printed, tables, cacheVars, timeVars, matchingRuntime,
                 deviceId, i, waitSecs, ci, error, ops>>
  /\ UNCHANGED <<inFlight, call, sleeps>>

(* Mutant: a Soft error is re-thrown like an unexpected one. *)
CatchSoftRethrow ==
  /\ pc = "catch"
  /\ error = "Soft"
  /\ outcomes' = Append(outcomes, "threw")
  /\ pc' = "finally"
  /\ UNCHANGED <<inputs, vi, di, results, printed, tables, cacheVars, timeVars,
                 matchingRuntime, deviceId, i, waitSecs, ci, error, ops>>
  /\ UNCHANGED <<inFlight, call, sleeps>>

(* Mutant: a Soft error gets the recovery shutdown of a Hard one. *)
CatchSoftRecover ==
  /\ pc = "catch"
  /\ error = "Soft"
  /\ pc' = "recovery"
  /\ UNCHANGED <<inputs, cmdVars, cacheVars, timeVars, matchingRuntime,
                 deviceId, i, waitSecs, ci, error, ops>>
  /\ UNCHANGED <<inFlight, call, sleeps>>

(* error instanceof SoftSimulatorError: return null *)
CatchSoft ==
  /\ pc = "catch"
  /\ error = "Soft"
  /\ outcomes' = Append(outcomes, "null")
  /\ vi' = NextVi
  /\ di' = NextDi
  /\ pc' = "loop"
  /\ UNCHANGED <<inputs, results, printed, tables, cacheVars, timeVars,
                 matchingRuntime, deviceId, i, waitSecs, ci, error, ops>>
  /\ UNCHANGED <<inFlight, call, sleeps>>

(* Mutant: a Hard error skips the repetition and the loop goes on. *)
CatchHardContinue ==
  /\ pc = "catch"
  /\ error = "Hard"
  /\ i' = i + 1
  /\ pc' = "for"
  /\ UNCHANGED <<inputs, cmdVars, cacheVars, timeVars, matchingRuntime,
                 deviceId, waitSecs, ci, error, ops>>
  /\ UNCHANGED <<inFlight, call, sleeps>>

(* Mutant: no recovery shutdown when the failed operation is the regular   *)
(* shutdown.                                                               *)
CatchHardSkipAfterShutdown ==
  /\ pc = "catch"
  /\ error = "Hard"
  /\ IF ops[Len(ops)].op = "shutdown"
     THEN /\ outcomes' = Append(outcomes, "null")
          /\ vi' = NextVi
          /\ di' = NextDi
          /\ pc' = "loop"
          /\ UNCHANGED <<results, printed, tables>>
     ELSE /\ pc' = "recovery"
          /\ UNCHANGED cmdVars
  /\ UNCHANGED <<inputs, cacheVars, timeVars, matchingRuntime, deviceId, i,
                 waitSecs, ci, error, ops>>
  /\ UNCHANGED <<inFlight, call, sleeps>>

(* error instanceof HardSimulatorError: the recovery shutdown follows *)
CatchHard ==
  /\ pc = "catch"
  /\ error = "Hard"
  /\ pc' = "recovery"
  /\ UNCHANGED <<inputs, cmdVars, cacheVars, timeVars, matchingRuntime,
                 deviceId, i, waitSecs, ci, error, ops>>
  /\ UNCHANGED <<inFlight, call, sleeps>>

(* Mutant: a failure of the recovery shutdown is raised to the catch. *)
RecoveryShutdownEscalate ==
  /\ pc = "recovery"
  /\ \E out \in CallOutcomes :
       /\ ops' = Append(ops, Op("shutdown", Booted, out))
       /\ IF out = "ok"
          THEN /\ outcomes' = Append(outcomes, "null")
               /\ vi' = NextVi
               /\ di' = NextDi
               /\ pc' = "loop"
               /\ UNCHANGED error
          ELSE /\ error' = SimctlError(out)
               /\ pc' = "catch"
               /\ UNCHANGED <<outcomes, vi, di>>
  /\ UNCHANGED <<inputs, results, printed, tables, cacheVars, timeVars,
                 matchingRuntime, deviceId, i, waitSecs, ci>>
  /\ inFlight' = Returned
  /\ UNCHANGED <<call, sleeps>>

(* shutdownDevice("booted") inside its own try/catch, then return null *)
RecoveryShutdown ==
  /\ pc = "recovery"
  /\ \E out \in CallOutcomes :
       ops' = Append(ops, Op("shutdown", Booted, out))
  /\ outcomes' = Append(outcomes, "null")
  /\ vi' = NextVi
  /\ di' = NextDi
  /\ pc' = "loop"
  /\ UNCHANGED <<inputs, results, printed, tables, cacheVars, timeVars,
                 matchingRuntime, deviceId, i, waitSecs, ci, error>>
  /\ inFlight' = Returned
  /\ UNCHANGED <<call, sleeps>>

(* Mutant: the error re-thrown by the runner is caught by nothing and ends *)
(* the process before the finally clause.                                  *)
CatchOtherUncaught ==
  /\ pc = "catch"
  /\ error = "Other"
  /\ outcomes' = Append(outcomes, "threw")
  /\ pc' = "crashed"
  /\ UNCHANGED <<inputs, vi, di, results, printed, tables, cacheVars, timeVars,
                 matchingRuntime, deviceId, i, waitSecs, ci, error, ops>>
  /\ UNCHANGED <<inFlight, call, sleeps>>

(* Mutant: an unexpected error is swallowed and null returned. *)
CatchOtherSwallow ==
  /\ pc = "catch"
  /\ error = "Other"
  /\ outcomes' = Append(outcomes, "null")
  /\ vi' = NextVi
  /\ di' = NextDi
  /\ pc' = "loop"
  /\ UNCHANGED <<inputs, results, printed, tables, cacheVars, timeVars,
                 matchingRuntime, deviceId, i, waitSecs, ci, error, ops>>
  /\ UNCHANGED <<inFlight, call, sleeps>>

(* throw error: caught by the command's try/catch, which goes to finally *)
CatchOther ==
  /\ pc = "catch"
  /\ error = "Other"
  /\ outcomes' = Append(outcomes, "threw")
  /\ pc' = "finally"
  /\ UNCHANGED <<inputs, vi, di, results, printed, tables, cacheVars, timeVars,
                 matchingRuntime, deviceId, i, waitSecs, ci, error, ops>>
  /\ UNCHANGED <<inFlight, call, sleeps>>

----------------------------------------------------------------------------
(* Initial states *)

(* The state of the process before anything ran *)
InitLocals ==
  /\ vi = 1
  /\ di = 1
  /\ results = <<>>
  /\ outcomes = <<>>
  /\ printed = "no"
  /\ tables = <<>>
  /\ cachedRuntimes = Null
  /\ cachedDevices = Null
  /\ fetches = [runtimes |-> 0, devices |-> 0]
  /\ resolutions = <<>>
  /\ matchingRuntime = 0
  /\ deviceId = Null
  /\ i = 0
  /\ waitSecs = 0
  /\ ci = 0
  /\ totalBootTimeMs = 0
  /\ totalTimeToIdleMs = 0
  /\ bootTime = 0
  /\ elapsed = 0
  /\ isIdle = FALSE
  /\ oneMinuteLoad = 0
  /\ measurements = <<>>
  /\ error = "none"
  /\ ops = <<>>
  /\ inFlight = {}
  /\ call = Null
  /\ sleeps = <<>>

(* benchmarkBootCommand is about to be called with the arguments that the  *)
(* specification chooses.                                                  *)
InitProcess ==
  /\ pc = "start"
  /\ flags = Null
  /\ InitLocals

Host(rts, devs, durs, loads, jitters) ==
  [runtimes |-> rts, devices |-> devs, durs |-> durs, loads |-> loads,
   jitters |-> jitters]

Group(t, s) == [key |-> GroupKeys[t], list |-> DeviceList(t, s)]

(* The command over several combinations on one host. *)
Init ==
  /\ iosVersions \in SeqsUpTo({V17, V170, V18}, MaxVersions)
  /\ deviceNames \in {<<"iPhone 11">>, <<"iPhone 11", "iPhone 15">>}
  /\ runCount \in 1..MaxRuns
  /\ idleThreshold = 200
  /\ idleTimeout = 5
  /\ spawnCommands \in {Null, Some(<<"c1", "c2">>)}
  /\ host = Host(<<Rt164, RtTv170, Rt170, Rt172>>,
                 <<Group(4, 1), Group(1, 1)>>, {1000}, {100}, {0})
  /\ InitProcess

Next ==
  \/ BenchmarkBootCommand
  \/ GatherRuntimes
  \/ CallRunBootBenchmark
  \/ LoopDone
  \/ Finally
  \/ ResolveDevice
  \/ ForLoop
  \/ Stabilize
  \/ EraseDevice
  \/ Boot
  \/ Spawn
  \/ Launch
  \/ IdlePoll
  \/ IdleReturn
  \/ ShutdownDevice
  \/ ReturnResult
  \/ CatchSoft
  \/ CatchHard
  \/ RecoveryShutdown
  \/ CatchOther

Spec == Init /\ [][Next]_vars

(* The resolver alone: one combination over many catalogs. *)
InitResolve ==
  /\ iosVersions \in {<<v>> : v \in VersionSpecs}
  /\ deviceNames = <<"iPhone 11">>
  /\ runCount = 1
  /\ idleThreshold = 200
  /\ idleTimeout = 5
  /\ spawnCommands = Null
  /\ \/ \E rts \in SeqsUpTo(RuntimePool, MaxRuntimes) :
          \E devs \in {<<>>, <<Group(1, 3)>>} :
            host = Host(rts, devs, {1000}, {100}, {0})
     \/ \E rts \in SeqsUpTo({Rt170, Rt164}, 1) :
          \E devs \in DeviceCatalogs(MaxGroups) :
            host = Host(rts, devs, {1000}, {100}, {0})
  /\ InitProcess

NextResolve ==
  \/ BenchmarkBootCommand
  \/ GatherRuntimes
  \/ CallRunBootBenchmark
  \/ ResolveDevice

SpecResolve == InitResolve /\ [][NextResolve]_vars

(* The devices of the host after they were deleted and created again: the  *)
(* same names under new udids.                                             *)
Recreated(devices) ==
  [g \in 1..Len(devices) |->
     [key |-> devices[g].key,
      list |-> [n \in 1..Len(devices[g].list) |->
                  [devices[g].list[n] EXCEPT
                     !.udid = <<@[1] + Len(GroupKeys), @[2]>>]]]]

IsRecreated(devices) ==
  \E g \in 1..Len(devices) : devices[g].list[1].udid[1] > Len(GroupKeys)

(* What `xcrun simctl list devices` would print changes while the command  *)
(* runs (another process deletes and re-creates the simulators).           *)
HostChanges ==
  /\ pc \notin {"start", "exit", "crashed", "done"}
  /\ ~IsRecreated(host.devices)
  /\ host' = [host EXCEPT !.devices = Recreated(@)]
  /\ UNCHANGED <<args, flags, cmdVars, cacheVars, timeVars, matchingRuntime,
                 deviceId, i, waitSecs, ci, error, ops, pc, inFlight, call,
                 sleeps>>

(* The command over several combinations on a host whose devices change. *)
InitCache ==
  /\ iosVersions \in SeqsUpTo({V17, V170, V18}, MaxVersions)
  /\ deviceNames \in {<<"iPhone 11">>, <<"iPhone 11", "iPhone 15">>}
  /\ runCount = 1
  /\ idleThreshold = 200
  /\ idleTimeout = 5
  /\ spawnCommands = Null
  /\ host = Host(<<Rt164, RtTv170, Rt170, Rt172>>,
                 <<Group(4, 1), Group(1, 3)>>, {1000}, {100}, {0})
  /\ InitProcess

NextCache ==
  \/ BenchmarkBootCommand
  \/ GatherRuntimes
  \/ CallRunBootBenchmark
  \/ LoopDone
  \/ Finally
  \/ ResolveDevice
  \/ ForLoop
  \/ EraseDevice
  \/ Boot
  \/ Launch
  \/ IdlePoll
  \/ IdleReturn
  \/ ShutdownDevice
  \/ ReturnResult
  \/ CatchSoft
  \/ CatchHard
  \/ RecoveryShutdown
  \/ CatchOther
  \/ HostChanges

SpecCache == InitCache /\ [][NextCache]_vars

(* One combination that resolves, on a host whose load, boot durations and *)
(* timer lateness vary: thresholds, timeouts and load samples of the idle  *)
(* detector. Times are in ms; a sleep lasts its delay plus the lateness of *)
(* the timer (host.jitters).                                               *)
InitIdle ==
  /\ iosVersions = <<V170>>
  /\ deviceNames = <<"iPhone 11">>
  /\ runCount \in 1..MaxRuns
  /\ idleThreshold \in {0, 2}
  /\ idleTimeout \in {0, 5, 13, 15}
  /\ spawnCommands = Null
  /\ host = Host(<<Rt170>>, <<Group(1, 1)>>, {1000}, {0, 1, 3}, {0, 1})
  /\ InitProcess

NextIdle ==
  \/ BenchmarkBootCommand
  \/ GatherRuntimes
  \/ CallRunBootBenchmark
  \/ LoopDone
  \/ Finally
  \/ ResolveDevice
  \/ ForLoop
  \/ Stabilize
  \/ EraseDevice
  \/ Boot
  \/ Launch
  \/ IdlePoll
  \/ IdleReturn
  \/ ShutdownDevice
  \/ ReturnResult
  \/ CatchHard
  \/ RecoveryShutdown
  \/ CatchOther

SpecIdle == InitIdle /\ [][NextIdle]_vars

(* The event loop runs every timer and every completed invocation: the     *)
(* program takes its next step whenever it has one.                        *)
SpecIdleFair == SpecIdle /\ WF_vars(NextIdle)

(* One combination that resolves, for every number of runs that parseInt   *)
(* of the --runs flag can give (negative, zero, positive), with boot       *)
(* durations and load samples that differ between repetitions.             *)
InitRun ==
  /\ iosVersions = <<V170>>
  /\ deviceNames = <<"iPhone 11">>
  /\ runCount \in (-1)..MaxRuns
  /\ idleThreshold = 2
  /\ idleTimeout \in {5, 15}
  /\ spawnCommands = Null
  /\ host = Host(<<Rt170>>, <<Group(1, 1)>>, {1000, 2000}, {1, 3}, {0})
  /\ InitProcess

SpecRun == InitRun /\ [][NextIdle]_vars

----------------------------------------------------------------------------
(* Properties of the runner and the command (checked under Spec) *)

Last(s) == s[Len(s)]

RunnerEnded == pc \in {"loop", "finally", "done"} /\ outcomes # <<>>

IsRecovery(o) == o.op = "shutdown" /\ o.id = Booted

RecoveryCount == Cardinality({k \in 1..Len(ops) : IsRecovery(ops[k])})

(* At the head of the combination loop the indices name the combination    *)
(* that follows the ones already run.                                      *)
LoopPosition ==
  pc = "loop" => (vi - 1) * Len(deviceNames) + di = Len(outcomes) + 1

(* The loop ends only after every combination, or by a propagated error. *)
AllCombinationsRun ==
  (pc \in {"finally", "done"} /\ (outcomes = <<>> \/ Last(outcomes) # "threw"))
    => Len(outcomes) = NumCombinations

(* C1: a call of runBootBenchmark that ends after a Soft or a Hard error   *)
(* returns null to the combination loop, and a call ends by an error       *)
(* propagating only when the error is of neither class.                    *)
C1_NullOnSoftOrHard ==
  [][Len(outcomes') > Len(outcomes) =>
       /\ error \in {"Soft", "Hard"} =>
            (Last(outcomes') = "null" /\ pc' = "loop" /\ results' = results)
       /\ Last(outcomes') = "threw" => error \notin {"none", "Soft", "Hard"}
       /\ Last(outcomes') = "result" => error = "none"]_vars

C1_Witness ==
  /\ pc = "loop" /\ error = "Hard"
  /\ Len(outcomes) = 2 /\ outcomes[2] = "null"
  /\ iosVersions = <<V18, V170>> /\ outcomes[1] = "null"

(* C2: after a Hard error in repetition i the runner is never again at a   *)
(* step of a repetition of that combination (stabilization wait, erase,    *)
(* boot, hooks, launch, idle-wait, shutdown): the only invocation after    *)
(* the failed one is the recovery shutdown, i stays the failed repetition, *)
(* and the combination loop goes on to every later combination.            *)
C2_FatalAbortsCombinationOnly ==
  /\ error = "Hard" =>
       /\ pc \in {"catch", "recovery", "loop", "finally", "done"}
       /\ \E k \in 1..Len(ops) :
            /\ ops[k].res # "ok" /\ ~IsRecovery(ops[k])
            /\ ops[k].rep = i
            /\ \A m \in 1..Len(ops) :
                 /\ ops[m].rep <= i
                 /\ m > k => (IsRecovery(ops[m]) /\ m = k + 1)
                 /\ m < k => ops[m].res = "ok"
       /\ pc \in {"loop", "finally", "done"} => Last(outcomes) = "null"
  /\ LoopPosition
  /\ AllCombinationsRun

C2_Witness ==
  /\ pc = "loop" /\ error = "Hard"
  /\ runCount = 2 /\ i = 0
  /\ vi <= Len(iosVersions)
  /\ Len(outcomes) < NumCombinations

(* C3: an error that is neither Soft nor Hard is re-thrown by the runner   *)
(* and ends the combination loop: the call that raised it is the last one, *)
(* whatever combinations remain.                                           *)
C3_UnexpectedAbortsRun ==
  /\ error = "Other" => pc \in {"catch", "finally", "done"}
  /\ (error = "Other" /\ pc # "catch") =>
       (outcomes # <<>> /\ Last(outcomes) = "threw")
  /\ \A k \in 1..Len(outcomes) :
       outcomes[k] = "threw" =>
         /\ k = Len(outcomes)
         /\ pc \in {"finally", "done"}
         /\ error = "Other"
         /\ Len(results) = Cardinality({m \in 1..k : outcomes[m] = "result"})

C3_Witness ==
  /\ pc = "done"
  /\ Last(outcomes) = "threw"
  /\ Len(outcomes) < NumCombinations
  /\ ops # <<>> /\ Last(ops).res = "throw"

FailedRegularShutdown ==
  \E k \in 1..Len(ops) :
    ops[k].op = "shutdown" /\ ops[k].id # Booted /\ ops[k].res = "fail"

(* C4: when the regular shutdown of a repetition fails with a Hard error,  *)
(* the runner issues exactly one recovery shutdown, returns null, and the  *)
(* combination loop goes on with the combinations after it.                *)
C4_ShutdownFailureRecovery ==
  /\ FailedRegularShutdown =>
       /\ pc \in {"catch", "recovery", "loop", "finally", "done"}
       /\ error = "Hard"
       /\ RecoveryCount = IF pc \in {"catch", "recovery"} THEN 0 ELSE 1
       /\ pc \in {"loop", "finally", "done"} =>
            (IsRecovery(Last(ops)) /\ Last(outcomes) = "null")
  /\ LoopPosition
  /\ AllCombinationsRun

C4_Witness ==
  /\ pc = "loop"
  /\ FailedRegularShutdown
  /\ RecoveryCount = 1
  /\ vi <= Len(iosVersions)

(* C5: when the resolution of a combination fails (the Soft error of       *)
(* getDeviceId), runBootBenchmark returns null and has issued no erase,    *)
(* boot, spawn, launch or shutdown invocation, recovery shutdown included. *)
C5_ResolutionFailureTouchesNothing ==
  error = "Soft" =>
    /\ ops = <<>>
    /\ deviceId = Null
    /\ pc \in {"catch", "loop", "finally", "done"}
    /\ pc # "catch" => Last(outcomes) = "null"

C5_Witness ==
  /\ pc = "loop" /\ error = "Soft" /\ Last(outcomes) = "null"
  /\ vi <= Len(iosVersions)

RecoveryFailed ==
  \E k \in 1..Len(ops) : IsRecovery(ops[k]) /\ ops[k].res # "ok"

(* C6: a recovery shutdown that fails, by a non-zero exit status or by an  *)
(* exception, is swallowed: the call still returns null, the error of the  *)
(* call stays the Hard one, there is no second recovery attempt and the    *)
(* combination loop goes on.                                               *)
C6_RecoveryFailureSwallowed ==
  /\ RecoveryFailed =>
       /\ pc \in {"loop", "finally", "done"}
       /\ Last(outcomes) = "null"
       /\ error = "Hard"
       /\ RecoveryCount = 1
       /\ IsRecovery(Last(ops))
  /\ LoopPosition
  /\ AllCombinationsRun

C6_Witness ==
  /\ pc = "loop"
  /\ ops # <<>> /\ IsRecovery(Last(ops)) /\ Last(ops).res = "throw"
  /\ vi <= Len(iosVersions)

----------------------------------------------------------------------------
(* Properties of the resolver (checked under SpecResolve) *)

Resolved == pc \in {"for", "catch"} /\ cachedRuntimes # Null

Catalog == cachedRuntimes[1]
VersionSpec == iosVersions[vi]
DeviceName == deviceNames[di]

RuleExact(r) == r.version = VersionSpec
RuleName(r) ==
  \E k \in 1..Len(r.name) :
    /\ k + Len(VersionSpec) - 1 <= Len(r.name)
    /\ \A n \in 1..Len(VersionSpec) : r.name[k + n - 1] = VersionSpec[n]
TwoCharNoDot ==
  Len(VersionSpec) = 2 /\ VersionSpec[1] # "." /\ VersionSpec[2] # "."
Prefixed(r) ==
  /\ Len(r.version) >= Len(VersionSpec)
  /\ \A n \in 1..Len(VersionSpec) : r.version[n] = VersionSpec[n]
RulePrefix(r) == TwoCharNoDot /\ Prefixed(r)
AnyRule(r) == RuleExact(r) \/ RuleName(r) \/ RulePrefix(r)

(* C7: the runtime selected by getDeviceId satisfies at least one of the   *)
(* three rules and no runtime before it in the catalog satisfies any; no   *)
(* runtime is selected only when none satisfies a rule.                    *)
C7_FirstMatchingRuntime ==
  Resolved =>
    /\ matchingRuntime \in 0..Len(Catalog)
    /\ matchingRuntime # 0 => AnyRule(Catalog[matchingRuntime])
    /\ \A k \in 1..Len(Catalog) :
         (matchingRuntime = 0 \/ k < matchingRuntime) => ~AnyRule(Catalog[k])

C7_Witness ==
  /\ Resolved
  /\ matchingRuntime = 3
  /\ RulePrefix(Catalog[3]) /\ ~RuleName(Catalog[3]) /\ ~RuleExact(Catalog[3])
  /\ AnyRule(Catalog[2]) = FALSE

(* C8: a runtime whose version equals the version spec is the one selected *)
(* whenever the runtimes before it in the catalog match no rule, whichever *)
(* they are and in whatever order.                                         *)
C8_ExactVersionSelected ==
  Resolved =>
    \A k \in 1..Len(Catalog) :
      (RuleExact(Catalog[k]) /\ \A m \in 1..(k - 1) : ~AnyRule(Catalog[m]))
        => matchingRuntime = k

C8_Witness ==
  /\ Resolved
  /\ matchingRuntime = 3
  /\ RuleExact(Catalog[3]) /\ ~RuleName(Catalog[3])
  /\ Catalog[1] # Catalog[2]

PrefixedIndices == {k \in 1..Len(Catalog) : Prefixed(Catalog[k])}

(* C9 as stated: for a two-character version spec without '.', every      *)
(* runtime whose version starts with it matches, and the first of them in  *)
(* catalog order is the one selected.                                      *)
C9_FirstPrefixedSelected ==
  (Resolved /\ TwoCharNoDot /\ PrefixedIndices # {}) =>
    /\ \A k \in PrefixedIndices : RuntimeMatches(Catalog[k], VersionSpec)
    /\ matchingRuntime = Min(PrefixedIndices)

(* C9 amended: for a two-character version spec without '.', every runtime *)
(* whose version starts with it matches, and the runtime selected is the   *)
(* first in catalog order whose version starts with the spec or whose      *)
(* display name contains it: the first prefixed runtime unless an earlier  *)
(* runtime's display name contains the spec.                               *)
C9_FirstPrefixedOrNamed ==
  (Resolved /\ TwoCharNoDot /\ PrefixedIndices # {}) =>
    LET first == Min(PrefixedIndices)
        named == {k \in 1..(first - 1) : RuleName(Catalog[k])}
    IN /\ \A k \in PrefixedIndices : RuntimeMatches(Catalog[k], VersionSpec)
       /\ matchingRuntime = IF named = {} THEN first ELSE Min(named)

C9_Witness ==
  /\ Resolved /\ TwoCharNoDot
  /\ Cardinality(PrefixedIndices) >= 2
  /\ matchingRuntime = Min(PrefixedIndices)
  /\ matchingRuntime = 2
  /\ ~RuleName(Catalog[2])

NoRuntimeMatches == \A k \in 1..Len(Catalog) : ~AnyRule(Catalog[k])

KeyExact(key, rt) == key = rt.identifier \/ key = rt.name

Contains(s, sub) ==
  \E k \in 1..(Len(s) + 1) :
    /\ k + Len(sub) - 1 <= Len(s)
    /\ \A n \in 1..Len(sub) : s[k + n - 1] = sub[n]

KeyLoose(key, rt) == Contains(key, rt.version) \/ Contains(key, rt.name)

(* An available device of the wanted name in a group either pass looks at *)
DeviceFound(devices, rt) ==
  \E g \in 1..Len(devices) :
    /\ KeyExact(devices[g].key, rt) \/ KeyLoose(devices[g].key, rt)
    /\ \E n \in 1..Len(devices[g].list) :
         /\ devices[g].list[n].name = DeviceName
         /\ devices[g].list[n].isAvailable

(* C10 as stated: getDeviceId fails exactly when no runtime matches or no  *)
(* available device of the name is found by either pass, and the error is  *)
(* then the Soft one.                                                      *)
C10_FailsExactlyOnNoMatch ==
  Resolved =>
    /\ (pc = "catch") <=>
         \/ NoRuntimeMatches
         \/ /\ cachedDevices # Null
            /\ ~DeviceFound(cachedDevices[1], Catalog[matchingRuntime])
    /\ pc = "catch" => error = "Soft"

(* C10 amended: once the catalogs are fetched, getDeviceId fails exactly   *)
(* when no runtime matches or no available device of the name is found by  *)
(* either pass, and that error is the Soft one, never the Hard one; the    *)
(* only other failure is an exception of the list-devices invocation,      *)
(* which leaves the function unchanged (neither Soft nor Hard).            *)
C10_ResolutionErrorsAreSoft ==
  Resolved =>
    LET noDevice == /\ ~NoRuntimeMatches
                    /\ cachedDevices # Null
                    /\ ~DeviceFound(cachedDevices[1], Catalog[matchingRuntime])
    IN /\ error \in {"none", "Soft", "Other"}
       /\ (pc = "catch") <=> (error # "none")
       /\ error = "Soft" <=> (NoRuntimeMatches \/ noDevice)
       /\ error = "Other" <=> (~NoRuntimeMatches /\ cachedDevices = Null)
       /\ error = "none" <=> deviceId # Null

C10_Witness ==
  /\ Resolved
  /\ error = "Soft"
  /\ matchingRuntime # 0
  /\ Len(cachedDevices[1]) = 2
  /\ \E g \in 1..2 : KeyLoose(cachedDevices[1][g].key, Catalog[matchingRuntime])

(* The positions <<group, index>> of the devices of a catalog *)
DevicePositions(devices) ==
  UNION {{<<g, n>> : n \in 1..Len(devices[g].list)} : g \in 1..Len(devices)}

DeviceAt(devices, p) == devices[p[1]].list[p[2]]

(* The available devices of the wanted name in the groups keyed exactly by *)
(* the identifier or the display name of the runtime                       *)
ExactHits(devices, rt) ==
  {p \in DevicePositions(devices) :
     /\ KeyExact(devices[p[1]].key, rt)
     /\ DeviceAt(devices, p).name = DeviceName
     /\ DeviceAt(devices, p).isAvailable}

(* C11: when a group keyed exactly by the selected runtime's identifier or *)
(* display name holds an available device of the wanted name, getDeviceId  *)
(* returns the udid of such a device (of an exactly keyed group, even when *)
(* a loosely keyed group comes first); and a returned udid never belongs   *)
(* to a device of another name or to an unavailable device.                *)
C11_FirstPassCorrect ==
  (Resolved /\ matchingRuntime # 0 /\ cachedDevices # Null) =>
    LET devices == cachedDevices[1]
        rt == Catalog[matchingRuntime]
    IN /\ ExactHits(devices, rt) # {} =>
            /\ error = "none"
            /\ pc = "for"
            /\ \E p \in ExactHits(devices, rt) :
                 deviceId = DeviceAt(devices, p).udid
       /\ deviceId # Null =>
            \A p \in DevicePositions(devices) :
              DeviceAt(devices, p).udid = deviceId =>
                /\ DeviceAt(devices, p).name = DeviceName
                /\ DeviceAt(devices, p).isAvailable

C11_Witness ==
  /\ Resolved /\ error = "none"
  /\ Len(cachedDevices[1]) = 2
  /\ ~KeyExact(cachedDevices[1][1].key, Catalog[matchingRuntime])
  /\ KeyLoose(cachedDevices[1][1].key, Catalog[matchingRuntime])
  /\ cachedDevices[1][1].list = DeviceList(3, 1)
  /\ KeyExact(cachedDevices[1][2].key, Catalog[matchingRuntime])
  /\ deviceId = <<1, 1>>

----------------------------------------------------------------------------
(* Properties of the caches (checked under SpecCache) *)

SamePair(a, b) == a.iosVersion = b.iosVersion /\ a.deviceName = b.deviceName

(* C12: of two resolutions of the same (version, device) pair within one   *)
(* process, the later one returns the udid the earlier one returned and    *)
(* issues no list-runtimes and no list-devices invocation, whatever the    *)
(* host would list by then.                                                *)
C12_ResolutionIdempotent ==
  \A k, m \in 1..Len(resolutions) :
    (k < m /\ SamePair(resolutions[k], resolutions[m])) =>
      /\ resolutions[m].udid = resolutions[k].udid
      /\ resolutions[m].err = resolutions[k].err
      /\ resolutions[m].runtimes = 0
      /\ resolutions[m].devices = 0

C12_Witness ==
  /\ Len(resolutions) = 2
  /\ SamePair(resolutions[1], resolutions[2])
  /\ resolutions[1].udid = <<1, 2>>
  /\ resolutions[2].udid = <<1, 2>>
  /\ resolutions[1].devices = 1
  /\ IsRecreated(host.devices)
  /\ pc = "done"

(* C13: once a cache is non-null its value never changes and the list      *)
(* command behind it is not invoked again, so a cache is assigned at most  *)
(* once; a resolution that returns a udid returns one of the snapshot in   *)
(* cachedDevices, even when the host lists other devices by then.          *)
C13_CachesAssignedOnce ==
  [][/\ cachedRuntimes # Null =>
          (cachedRuntimes' = cachedRuntimes
             /\ fetches'.runtimes = fetches.runtimes)
     /\ cachedDevices # Null =>
          (cachedDevices' = cachedDevices
             /\ fetches'.devices = fetches.devices)
     /\ (Len(resolutions') > Len(resolutions)
           /\ Last(resolutions').udid # Null) =>
          /\ cachedDevices' # Null
          /\ \E p \in DevicePositions(cachedDevices'[1]) :
               DeviceAt(cachedDevices'[1], p).udid = Last(resolutions').udid
    ]_vars

C13_Witness ==
  /\ Len(resolutions) = 2
  /\ resolutions[2].udid # Null
  /\ resolutions[2].devices = 0
  /\ cachedDevices # Null
  /\ cachedDevices[1] # host.devices
  /\ fetches = [runtimes |-> 1, devices |-> 1]
  /\ resolutions[1].devices = 1
  /\ resolutions[1].deviceName # resolutions[2].deviceName

BothResolved(a, b) == a.udid # Null /\ b.udid # Null

(* C14 as stated: two combinations of one invocation with different        *)
(* (version, device) pairs that both resolve get different udids.          *)
C14_DistinctPairsDistinctIds ==
  \A k, m \in 1..Len(resolutions) :
    (BothResolved(resolutions[k], resolutions[m])
       /\ ~SamePair(resolutions[k], resolutions[m])) =>
      resolutions[k].udid # resolutions[m].udid

(* C14 amended: two combinations of one invocation that both resolve get   *)
(* different udids when their device names differ, and the same udid when  *)
(* their device names are equal and their version specs select the same    *)
(* runtime (as "17" and "17.0" do), different though the pairs are.        *)
C14_DistinctNamesDistinctIds ==
  \A k, m \in 1..Len(resolutions) :
    BothResolved(resolutions[k], resolutions[m]) =>
      /\ resolutions[k].deviceName # resolutions[m].deviceName =>
           resolutions[k].udid # resolutions[m].udid
      /\ (resolutions[k].deviceName = resolutions[m].deviceName
            /\ resolutions[k].runtime = resolutions[m].runtime) =>
           resolutions[k].udid = resolutions[m].udid

C14_Witness ==
  /\ Len(resolutions) = 4
  /\ \A k \in 1..4 : resolutions[k].udid # Null
  /\ resolutions[1].iosVersion # resolutions[3].iosVersion
  /\ resolutions[1].udid = resolutions[3].udid
  /\ resolutions[1].udid # resolutions[2].udid

----------------------------------------------------------------------------
(* Properties of the idle detector (checked under SpecIdle, SpecIdleFair) *)

TimeoutMs == idleTimeout * 1000

(* C15: waitForSystemIdle terminates for every threshold, timeout and      *)
(* sequence of load samples: every iteration of its loop either declares   *)
(* idle or starts before the deadline and moves the clock on by a poll     *)
(* interval, the wait that has started always reaches its return, and the  *)
(* return, after idle as after the deadline, hands a duration >= 0 to the  *)
(* runner and raises no error.                                             *)
C15_IdleWaitTerminates ==
  /\ [][pc = "idle" =>
          /\ pc' \in {"idle", "shutdown"}
          /\ error' = error /\ error = "none"
          /\ pc' = "idle" =>
               \/ isIdle' /\ ~isIdle /\ elapsed' = elapsed
               \/ /\ ~isIdle' /\ elapsed < TimeoutMs
                  /\ elapsed' >= elapsed + IdlePollMs
          /\ pc' = "shutdown" =>
               /\ elapsed >= 0
               /\ isIdle \/ elapsed >= TimeoutMs
               /\ totalTimeToIdleMs' = totalTimeToIdleMs + bootTime + elapsed
     ]_vars
  /\ (pc = "idle") ~> (pc = "shutdown")

C15_Witness ==
  /\ pc = "shutdown"
  /\ i = 1
  /\ ~isIdle /\ elapsed >= TimeoutMs
  /\ idleTimeout = 13
  /\ totalTimeToIdleMs > bootTime + elapsed

(* The wait has returned: elapsed is the duration it returned. *)
IdleReturned == pc = "shutdown"

C17_ZeroThresholdNeverIdle ==
  idleThreshold = 0 =>
    /\ ~isIdle
    /\ IdleReturned => elapsed >= TimeoutMs

C17_Witness ==
  /\ idleThreshold = 0
  /\ IdleReturned
  /\ idleTimeout = 15
  /\ elapsed >= TimeoutMs
  /\ i = 1

(* An iteration of the polling loop: the sample of the step is             *)
(* oneMinuteLoad', taken elapsed ms after the start.                       *)
PollStep == pc = "idle" /\ pc' = "idle" /\ oneMinuteLoad' \in host.loads

(* C18: idle is declared only at a sample below the threshold taken more   *)
(* than 10 seconds after the start; a sample below the threshold taken     *)
(* within the first 10 seconds does not end the wait and is followed by    *)
(* the 3-second sleep; and the wait returns as idle only after such a      *)
(* declaration.                                                            *)
C18_IdleOnlyBelowThresholdAfterGrace ==
  [][/\ (PollStep /\ isIdle') =>
          (oneMinuteLoad' < idleThreshold /\ elapsed > IdleGraceSecs * 1000)
     /\ (PollStep /\ oneMinuteLoad' < idleThreshold
           /\ elapsed <= IdleGraceSecs * 1000) =>
          /\ ~isIdle'
          /\ elapsed' >= elapsed + IdlePollMs
     /\ (isIdle' /\ ~isIdle) => PollStep
    ]_vars

C18_Witness ==
  /\ pc = "idle"
  /\ ~isIdle
  /\ oneMinuteLoad = 1 /\ idleThreshold = 2
  /\ elapsed \in 9000..10000
  /\ idleTimeout = 15

----------------------------------------------------------------------------
(* Properties of the averages (checked under SpecRun) *)

(* The repetitions of the current call whose idle-wait ended by timeout *)
TimedOut == {k \in 1..Len(measurements) : ~measurements[k].idle}

SumBootTimes ==
  SumOver([k \in 1..Len(measurements) |-> measurements[k].bootTime],
          Len(measurements))

SumTimesToIdle ==
  SumOver([k \in 1..Len(measurements) |->
             measurements[k].bootTime + measurements[k].timeToIdle],
          Len(measurements))

(* The one combination has returned its BenchmarkResult. *)
HasResult == Len(results) = 1 /\ pc \in {"loop", "finally", "done"}

(* C19 as stated: when the idle-wait of some repetition ended by timeout,  *)
(* the combination still returns a result with runs = runCount whose       *)
(* average time-to-idle is at least the average boot time plus the full    *)
(* timeout (both averages have the denominator runCount > 0).              *)
C19_TimeoutGivesFullTimeoutAverage ==
  (HasResult /\ TimedOut # {}) =>
    /\ results[1].runs = runCount
    /\ results[1].timeToIdleMs.num >=
         results[1].bootTimeMs.num + runCount * TimeoutMs

(* C19 amended: an idle-wait that ends by timeout raises no error and the  *)
(* repetition goes on to its shutdown; a result that is returned has       *)
(* runs = runCount, and every repetition that timed out adds at least its  *)
(* boot time plus the full timeout to the time-to-idle total: the average  *)
(* time-to-idle is at least the average boot time plus the timeout times   *)
(* the share of the repetitions that timed out, which is the full timeout  *)
(* only when every repetition timed out.                                   *)
C19_TimeoutIsNotAnError ==
  [][/\ (pc = "idle" /\ pc' # "idle" /\ ~isIdle) =>
          /\ pc' = "shutdown"
          /\ error' = "none"
          /\ elapsed >= TimeoutMs
          /\ totalTimeToIdleMs' >= totalTimeToIdleMs + bootTime + TimeoutMs
     /\ Len(results') > Len(results) =>
          /\ Last(results').runs = runCount
          /\ Last(results').timeToIdleMs.den = runCount
          /\ Last(results').bootTimeMs.den = runCount
          /\ Last(results').timeToIdleMs.num >=
               Last(results').bootTimeMs.num
                 + Cardinality(TimedOut) * TimeoutMs
          /\ Cardinality(TimedOut) = runCount =>
               Last(results').timeToIdleMs.num >=
                 Last(results').bootTimeMs.num + runCount * TimeoutMs
    ]_vars

C19_Witness ==
  /\ HasResult
  /\ runCount = 2
  /\ idleTimeout = 15
  /\ Cardinality(TimedOut) = 1
  /\ results[1].timeToIdleMs.num <
       results[1].bootTimeMs.num + runCount * TimeoutMs

(* C20: in every result bootTimeMs is the sum of the boot times of the     *)
(* repetitions divided by runs and timeToIdleMs the sum of their           *)
(* time-to-idle values divided by runs, runs being the number of           *)
(* repetitions that were measured.                                         *)
C20_MeansOverMeasuredRuns ==
  HasResult =>
    /\ results[1].runs = Len(measurements)
    /\ results[1].bootTimeMs = Mean(SumBootTimes, results[1].runs)
    /\ results[1].timeToIdleMs = Mean(SumTimesToIdle, results[1].runs)

(* What runBootBenchmark computes: runs = runCount, bootTimeMs the sum of  *)
(* the boot times of the repetitions measured divided by runCount and      *)
(* timeToIdleMs the sum of their time-to-idle values divided by runCount;  *)
(* runCount repetitions are measured when runCount >= 0 and none when it   *)
(* is negative.                                                            *)
MeansOverRunCount ==
  HasResult =>
    /\ results[1].runs = runCount
    /\ results[1].bootTimeMs = Mean(SumBootTimes, runCount)
    /\ results[1].timeToIdleMs = Mean(SumTimesToIdle, runCount)
    /\ Len(measurements) = IF runCount >= 0 THEN runCount ELSE 0

C20_Witness ==
  /\ HasResult
  /\ runCount = 2
  /\ measurements[1].bootTime # measurements[2].bootTime
  /\ measurements[1].idle # measurements[2].idle
  /\ results[1].bootTimeMs = Mean(5000, 2)

(* The repetitions of the current call that ran to the end: erased,        *)
(* booted, launched and shut down without an error.                        *)
CompletedRepetitions ==
  {r \in 0..(i - 1) :
     \A name \in {"erase", "boot", "launch", "shutdown"} :
       \E k \in 1..Len(ops) :
         /\ ops[k].op = name /\ ops[k].rep = r
         /\ ops[k].res = "ok" /\ ~IsRecovery(ops[k])}

(* C21: runBootBenchmark returns a BenchmarkResult only if at least one    *)
(* repetition (erase, boot, idle-wait, shutdown) completed during the      *)
(* call, whatever runCount the command layer passed.                       *)
C21_ResultNeedsRepetition ==
  HasResult =>
    /\ CompletedRepetitions # {}
    /\ Len(measurements) >= 1

(* A result returned by a call that invoked nothing and measured nothing. *)
C21_Witness ==
  /\ HasResult
  /\ runCount = 0
  /\ ops = <<>>
  /\ measurements = <<>>
  /\ results[1] = [iosVersion |-> V170, deviceName |-> "iPhone 11",
                   bootTimeMs |-> Mean(0, 0), timeToIdleMs |-> Mean(0, 0),
                   runs |-> 0]

----------------------------------------------------------------------------
(* Properties of the results of a combination (checked under Spec) *)

(* The call of runBootBenchmark for the last combination returned a result *)
(* (or is about to: the runner stands at its return statement).            *)
LastCallGaveResult ==
  \/ pc = "return"
  \/ RunnerEnded /\ Last(outcomes) = "result"

(* The repetitions that runCount asks for (none when it is not positive) *)
Repetitions == 0..(runCount - 1)

SomeStepFailed == \E k \in 1..Len(ops) : ops[k].res # "ok"

(* C22: results are all-or-nothing per combination: a call returns a       *)
(* result only when each of the runCount repetitions completed all of its  *)
(* steps without an error, and that result has runs = runCount; a call in  *)
(* which a step of any repetition failed returns no result, so the list    *)
(* of results holds one entry per call that returned one and nothing else. *)
C22_AllOrNothing ==
  /\ LastCallGaveResult =>
       /\ error = "none"
       /\ ~SomeStepFailed
       /\ i = Cardinality(Repetitions)
       /\ CompletedRepetitions = Repetitions
       /\ Len(measurements) = Cardinality(Repetitions)
  /\ (RunnerEnded /\ Last(outcomes) = "result") =>
       /\ Last(results).runs = runCount
       /\ Last(results).bootTimeMs = Mean(SumBootTimes, runCount)
       /\ Last(results).timeToIdleMs = Mean(SumTimesToIdle, runCount)
  /\ SomeStepFailed =>
       /\ pc # "return"
       /\ RunnerEnded => Last(outcomes) # "result"
  /\ Len(results) =
       Cardinality({k \in 1..Len(outcomes) : outcomes[k] = "result"})

(* After a completed first repetition the second one failed: the call      *)
(* returned null and the combination left nothing in the results.          *)
C22_Witness ==
  /\ RunnerEnded
  /\ runCount = 2
  /\ Len(outcomes) = 1
  /\ outcomes[1] = "null"
  /\ CompletedRepetitions = {0}
  /\ Len(measurements) = 1
  /\ SomeStepFailed
  /\ results = <<>>

----------------------------------------------------------------------------
(* Properties of the measured times (checked under SpecRun) *)

(* a >= b of JavaScript for two quotients kept as fractions: 0/0 is NaN    *)
(* and compares false with everything; x/0 with x # 0 is an infinity.      *)
(* -1, 0, 1 for minus infinity, a finite quotient, plus infinity; the      *)
(* denominators of the model are integers, so a zero one is +0.            *)
Rank(m) == IF m.den = 0 THEN Sign(m.num) ELSE 0

GreaterOrEqual(a, b) ==
  IF IsNaN(a) \/ IsNaN(b) THEN FALSE
  ELSE IF a.den = 0 \/ b.den = 0 THEN Rank(a) >= Rank(b)
  ELSE a.num * b.den * Sign(a.den * b.den)
         >= b.num * a.den * Sign(a.den * b.den)

(* C23: for every repetition the time-to-idle value accumulated is the     *)
(* boot time of the repetition plus the duration returned by the idle      *)
(* detector, and in every result timeToIdleMs >= bootTimeMs.               *)
C23_CumulativeTimeToIdle ==
  [][/\ (pc = "idle" /\ pc' = "shutdown") =>
          /\ totalTimeToIdleMs' = totalTimeToIdleMs + bootTime + elapsed
          /\ Last(measurements').bootTime = bootTime
          /\ Last(measurements').timeToIdle = elapsed
     /\ \A k \in 1..Len(results') :
          GreaterOrEqual(results'[k].timeToIdleMs, results'[k].bootTimeMs)
    ]_vars

(* A result whose two averages are NaN, so that neither is >= the other. *)
C23_Witness ==
  /\ HasResult
  /\ IsNaN(results[1].bootTimeMs)
  /\ IsNaN(results[1].timeToIdleMs)
  /\ ~GreaterOrEqual(results[1].timeToIdleMs, results[1].bootTimeMs)
  /\ totalTimeToIdleMs = 0
  /\ totalBootTimeMs = 0

----------------------------------------------------------------------------
(* The boot measurement: post-boot commands and invocations of differing   *)
(* durations *)

InitBoot ==
  /\ iosVersions = <<V170>>
  /\ deviceNames = <<"iPhone 11">>
  /\ runCount \in 1..MaxRuns
  /\ idleThreshold = 2
  /\ idleTimeout = 5
  /\ spawnCommands \in {Null, Some(<<"c1">>), Some(<<"c1", "c2">>)}
  /\ host = Host(<<Rt170>>, <<Group(1, 1)>>, {1000, 2000}, {1}, {0})
  /\ InitProcess

NextBoot ==
  \/ NextIdle
  \/ Spawn

SpecBoot == InitBoot /\ [][NextBoot]_vars

(* The invocations that measureBootTime makes between startTime and        *)
(* endTime *)
TimedOps == {"boot", "spawn", "launch"}

LaunchSucceeded(r) ==
  \E k \in 1..Len(ops) :
    ops[k].op = "launch" /\ ops[k].rep = r /\ ops[k].res = "ok"

C25_BootTimeIsBootstatusOnly ==
  \A k \in 1..Len(measurements) :
    measurements[k].bootTime = DurationOf({"boot"}, k - 1)

(* A boot time of 4 s for a bootstatus call of 1 s, a post-boot command    *)
(* of 2 s and a launch of 1 s.                                             *)
C25_Witness ==
  /\ Len(measurements) = 1
  /\ spawnCommands = Some(<<"c1">>)
  /\ DurationOf({"boot"}, 0) = 1000
  /\ DurationOf({"spawn"}, 0) = 2000
  /\ DurationOf({"launch"}, 0) = 1000
  /\ measurements[1].bootTime = 4000

----------------------------------------------------------------------------
(* Properties of the report (checked under SpecCache, where both devices   *)
(* can be resolved) *)

RECURSIVE Flatten(_)
Flatten(ss) ==
  IF ss = <<>> THEN <<>>
  ELSE Flatten(SubSeq(ss, 1, Len(ss) - 1)) \o ss[Len(ss)]

(* The rows of all the tables printed, in the order printed *)
PrintedRows == Flatten([t \in 1..Len(tables) |-> tables[t].rows])

Count(s, x) == Cardinality({k \in 1..Len(s) : s[k] = x})

(* The positions in the combination loop of the calls that returned a      *)
(* result *)
Succeeded ==
  SelectSeq([n \in 1..Len(outcomes) |-> n], LAMBDA n : outcomes[n] = "result")

VersionOf(n) == iosVersions[((n - 1) \div Len(deviceNames)) + 1]

DeviceOf(n) == deviceNames[((n - 1) % Len(deviceNames)) + 1]

(* C27: when the combination loop has ended, the reporter is given exactly *)
(* the results of the combinations that succeeded; if there is at least    *)
(* one, the tables printed hold one row for each of them, also when other  *)
(* combinations failed or the loop was cut short by an unexpected error;   *)
(* if there is none, the no-results notice is printed and no table.        *)
(* Nothing is reported before the loop has ended.                          *)
C27_ReportCoversSuccesses ==
  /\ pc = "done" =>
       /\ Len(results) = Len(Succeeded)
       /\ \A k \in 1..Len(results) :
            /\ results[k].iosVersion = VersionOf(Succeeded[k])
            /\ results[k].deviceName = DeviceOf(Succeeded[k])
       /\ IF Len(Succeeded) > 0
          THEN /\ printed = "table"
               /\ Len(PrintedRows) = Len(results)
               /\ \A k \in 1..Len(results) :
                    Count(PrintedRows, Row(results[k])) =
                      Count(PrintResultTable(results), Row(results[k]))
               /\ \A t \in 1..Len(tables) :
                    /\ tables[t].rows # <<>>
                    /\ tables[t].device # Null =>
                         \A j \in 1..Len(tables[t].rows) :
                           \E k \in 1..Len(results) :
                             /\ Some(results[k].deviceName) = tables[t].device
                             /\ Row(results[k]) = tables[t].rows[j]
          ELSE /\ printed = "notice"
               /\ tables = <<>>
  /\ pc # "done" => printed = "no" /\ tables = <<>>

(* Of four combinations the second returned null and the fourth raised an  *)
(* unexpected error; the two that succeeded are both in the tables.        *)
C27_Witness ==
  /\ pc = "done"
  /\ outcomes = <<"result", "null", "result", "threw">>
  /\ printed = "table"
  /\ Len(PrintedRows) = 2
  /\ Len(tables) = 1
  /\ iosVersions = <<V17, V170>>
  /\ deviceNames = <<"iPhone 11", "iPhone 15">>

(* The groups of rows printed, without the line above each table *)
PrintedGroups == [t \in 1..Len(tables) |-> tables[t].rows]

(* The results that have the key value among those of rs, in their order,  *)
(* as rows; key is "deviceName" or "iosVersion".                           *)
RowsWith(rs, key, value) ==
  PrintResultTable(SelectSeq(rs, LAMBDA r : r[key] = value))

(* The rows of rs in one group per value of key, the groups in the order   *)
(* in which their values first occur.                                      *)
GroupedBy(rs, key) ==
  LET keys == MapKeys([k \in 1..Len(rs) |-> rs[k][key]])
  IN [g \in 1..Len(keys) |-> RowsWith(rs, key, keys[g])]

(* C28 as stated: the reporter groups the results by device name when more *)
(* than one device was requested, each result in the group of its          *)
(* deviceName and in its original relative order, and by version           *)
(* otherwise.                                                              *)
C28_GroupsByDeviceOrVersion ==
  (pc = "done" /\ printed = "table") =>
    PrintedGroups = IF Len(deviceNames) > 1
                    THEN GroupedBy(results, "deviceName")
                    ELSE GroupedBy(results, "iosVersion")

(* C28 amended: the reporter groups the results by device name when more   *)
(* than one device was requested, one table per device under a line that   *)
(* names it, each result in the table of its deviceName and in its         *)
(* original relative order; when one device was requested it prints all    *)
(* the results in a single table, ungrouped and in their original order,   *)
(* one row per result that shows its version.                              *)
C28_GroupsByDeviceOrOneTable ==
  (pc = "done" /\ printed = "table") =>
    IF Len(deviceNames) > 1
    THEN /\ PrintedGroups = GroupedBy(results, "deviceName")
         /\ \A t \in 1..Len(tables) :
              /\ tables[t].device # Null
              /\ tables[t].rows =
                   RowsWith(results, "deviceName", tables[t].device[1])
              /\ \A u \in 1..Len(tables) :
                   tables[u].device = tables[t].device => u = t
         /\ \A k \in 1..Len(results) :
              \E t \in 1..Len(tables) :
                tables[t].device = Some(results[k].deviceName)
    ELSE tables = <<[device |-> Null, rows |-> PrintResultTable(results)]>>

(* Two versions on two devices, all four combinations measured: the        *)
(* results alternate between the devices and are printed as two tables of  *)
(* two rows.                                                               *)
C28_Witness ==
  /\ pc = "done"
  /\ Len(results) = 4
  /\ iosVersions = <<V17, V170>>
  /\ Len(tables) = 2
  /\ tables[1].device = Some("iPhone 11")
  /\ tables[2].device = Some("iPhone 15")
  /\ tables[1].rows[1].iosVersion = V17
  /\ tables[1].rows[2].iosVersion = V170
  /\ tables[2].rows = tables[1].rows

(* One device and two versions: a single table of two rows, where a        *)
(* grouping by version would give two groups.                              *)
C28_OneTable ==
  /\ pc = "done"
  /\ deviceNames = <<"iPhone 11">>
  /\ iosVersions = <<V17, V170>>
  /\ Len(results) = 2
  /\ Len(tables) = 1
  /\ Len(GroupedBy(results, "iosVersion")) = 2

----------------------------------------------------------------------------
(* The command line: main's parsing of the flags *)

T2 == <<"2">>
T0 == <<"0">>
TMinus1 == <<"-", "1">>
T3 == <<"3">>
T5 == <<"5">>
T15 == <<"1", "5">>
T5s == <<"5", "s">>

(* Command lines of benchmark-boot: each flag absent or given with one of  *)
(* a few values.                                                           *)
CommandLines ==
  [ios : {<<>>, <<V170>>, <<V17, V170>>},
   device : {<<>>, <<"iPhone 11">>},
   runs : {Null, Some(T2), Some(T0), Some(TMinus1)},
   idleThreshold : {Null, Some(T3)},
   idleTimeout : {Null, Some(T5), Some(T15), Some(T5s)},
   spawn : {<<>>, <<"c1">>}]

(* main is about to parse the command line; the arguments of the command   *)
(* do not exist yet and hold placeholders.                                 *)
InitMain ==
  /\ pc = "main"
  /\ flags \in CommandLines
  /\ iosVersions = <<>>
  /\ deviceNames = <<>>
  /\ runCount = 0
  /\ idleThreshold = 0
  /\ idleTimeout = 0
  /\ spawnCommands = Null
  /\ host = Host(<<Rt170>>, <<Group(1, 1)>>, {1000}, {1}, {0})
  /\ InitLocals

NextMain ==
  \/ Main
  \/ BenchmarkBootCommand

SpecMain == InitMain /\ [][NextMain]_vars

MainReturned == flags # Null /\ pc # "main"

(* C29: the idle timeout handed to the idle detector equals the value      *)
(* given with --idle-timeout whenever the flag is supplied, and equals 300 *)
(* only when the flag is omitted, whatever the other flags are.            *)
C29_IdleTimeoutFlagUsed ==
  MainReturned =>
    /\ flags.idleTimeout # Null =>
         idleTimeout = ParseInt(flags.idleTimeout[1])
    /\ idleTimeout = DefaultIdleTimeout => flags.idleTimeout = Null

(* --idle-timeout 15 was given and the timeout in use is 300. *)
C29_Witness ==
  /\ MainReturned
  /\ flags.idleTimeout = Some(T15)
  /\ idleTimeout = 300
  /\ flags.runs = Some(T2) /\ runCount = 2
  /\ flags.idleThreshold = Some(T3) /\ idleThreshold = 3

----------------------------------------------------------------------------
(* The recovery shutdown and the operation that failed (checked under Spec) *)

(* The invocation whose failure ended the current call of the runner: the  *)
(* first one that did not succeed.                                         *)
FailedOp ==
  ops[CHOOSE k \in 1..Len(ops) :
        ops[k].res # "ok" /\ \A j \in 1..(k - 1) : ops[j].res = "ok"]

EndedByHardError == RunnerEnded /\ error = "Hard"

(* C30 as stated: after a Fatal failure the recovery shutdown is attempted *)
(* when the failed operation was erase, boot, a post-boot command or the   *)
(* usability launch, and is not attempted when it was the regular          *)
(* shutdown.                                                               *)
C30_NoRecoveryAfterShutdownFailure ==
  EndedByHardError =>
    /\ FailedOp.op \in {"erase", "boot", "spawn", "launch"} =>
         RecoveryCount = 1
    /\ FailedOp.op = "shutdown" => RecoveryCount = 0

(* C30 amended: after a Fatal failure the recovery shutdown is attempted   *)
(* once, right after the failed operation, whichever operation failed:     *)
(* erase, boot, a post-boot command, the usability launch or the regular   *)
(* shutdown itself; without a Fatal failure it is never attempted.         *)
C30_RecoveryWhateverFailed ==
  /\ EndedByHardError =>
       /\ Len(ops) >= 2
       /\ FailedOp = ops[Len(ops) - 1]
       /\ ~IsRecovery(FailedOp)
       /\ FailedOp.op \in {"erase", "boot", "spawn", "launch", "shutdown"}
       /\ IsRecovery(Last(ops))
       /\ RecoveryCount = 1
  /\ error # "Hard" => RecoveryCount = 0
  /\ (error = "Hard" /\ pc \in {"catch", "recovery"}) => RecoveryCount = 0

(* The regular shutdown of the second repetition failed and the recovery   *)
(* shutdown followed it.                                                   *)
C30_Witness ==
  /\ EndedByHardError
  /\ FailedOp.op = "shutdown"
  /\ FailedOp.rep = 1
  /\ FailedOp.id = <<1, 1>>
  /\ IsRecovery(Last(ops))
  /\ Last(ops).res = "ok"

----------------------------------------------------------------------------
(* The command with every awaited invocation in two steps: the call is     *)
(* issued (StartInvocation) and the program goes on when it has returned   *)
(* (InvocationReturns).                                                    *)

StartInvocation ==
  /\ pc \in InvocationSites
  /\ Invocation \notin inFlight
  /\ inFlight' = inFlight \cup {Invocation}
  /\ UNCHANGED <<inputs, cmdVars, cacheVars, timeVars, matchingRuntime,
                 deviceId, i, waitSecs, ci, error, ops, pc, call, sleeps>>

InvocationReturns ==
  /\ Invocation \in inFlight
  /\ \/ GatherRuntimes
     \/ ResolveDevice
     \/ EraseDevice
     \/ Boot
     \/ Spawn
     \/ Launch
     \/ ShutdownDevice
     \/ RecoveryShutdown

NextAwait ==
  \/ StartInvocation
  \/ InvocationReturns
  \/ BenchmarkBootCommand
  \/ CallRunBootBenchmark
  \/ LoopDone
  \/ Finally
  \/ ForLoop
  \/ Stabilize
  \/ IdlePoll
  \/ IdleReturn
  \/ ReturnResult
  \/ CatchSoft
  \/ CatchHard
  \/ CatchOther

SpecAwait == Init /\ [][NextAwait]_vars

(* The repetitions of the current call that have begun and not ended: one  *)
(* of their invocations is logged or in flight, and their regular shutdown *)
(* has not returned, nor has the call ended.                               *)
RepetitionsInProgress ==
  {r \in 0..MaxRuns :
     /\ pc \notin {"start", "exit", "gather", "crashed", "loop", "finally",
                   "done"}
     /\ \/ \E k \in 1..Len(ops) : ops[k].rep = r /\ ~IsRecovery(ops[k])
        \/ \E f \in inFlight : f.rep = r /\ f.site \notin {"gather", "resolve"}
     /\ ~\E k \in 1..Len(ops) :
           ops[k].rep = r /\ ops[k].op = "shutdown" /\ ~IsRecovery(ops[k])
     /\ error = "none"}

(* The calls of runBootBenchmark that have begun and not returned: each    *)
(* call begins with one resolution and ends with one outcome.              *)
CombinationsInProgress ==
  (Len(resolutions) + Cardinality({f \in inFlight : f.site = "resolve"}))
    - Len(outcomes)

(* C26: at every point at most one invocation of the control utility is    *)
(* in flight, at most one repetition and at most one combination is in     *)
(* progress, and an invocation starts only after the one before it has     *)
(* returned: the invocation in flight is the one the program is waiting    *)
(* for, and everything logged before it has returned.                      *)
C26_OneInvocationInFlight ==
  /\ [](/\ Cardinality(inFlight) <= 1
        /\ \A f \in inFlight : f = Invocation
        /\ Cardinality(RepetitionsInProgress) <= 1
        /\ RepetitionsInProgress \subseteq {i}
        /\ CombinationsInProgress \in {0, 1})
  /\ [][inFlight' # inFlight /\ inFlight' # {} => inFlight = {}]_vars

(* The regular shutdown of the first repetition has returned, and the      *)
(* erase of the second repetition is in flight, alone.                     *)
C26_Witness ==
  /\ pc = "erase"
  /\ i = 1
  /\ inFlight = {Invocation}
  /\ spawnCommands # Null
  /\ Last(ops).op = "shutdown" /\ Last(ops).rep = 0 /\ Last(ops).res = "ok"
  /\ Len(outcomes) = 1

----------------------------------------------------------------------------
(* The order of the matching rules (checked under SpecResolve) *)

ExactIndices == {k \in 1..Len(Catalog) : RuleExact(Catalog[k])}

(* C31: the matching rules are applied in order and the first rule wins:   *)
(* whenever some runtime of the catalog has a version equal to the version *)
(* spec, the runtime selected is not one that matches only by a looser     *)
(* rule (display name contains the spec, or two-character prefix).         *)
C31_ExactRuleWins ==
  (Resolved /\ ExactIndices # {}) =>
    /\ matchingRuntime # 0
    /\ RuleExact(Catalog[matchingRuntime])

(* The spec "17" over the catalog iOS 17.0, iOS 17: iOS 17.0 is selected   *)
(* by its prefix and display name although iOS 17 matches exactly.         *)
C31_Witness ==
  /\ Resolved
  /\ VersionSpec = V17
  /\ Catalog = <<Rt170, Rt17>>
  /\ matchingRuntime = 1
  /\ ~RuleExact(Catalog[1])
  /\ RuleExact(Catalog[2])

(* The available devices of the wanted name in the groups whose key        *)
(* contains the version or the display name of the runtime                 *)
LooseHits(devices, rt) ==
  {p \in DevicePositions(devices) :
     /\ KeyLoose(devices[p[1]].key, rt)
     /\ DeviceAt(devices, p).name = DeviceName
     /\ DeviceAt(devices, p).isAvailable}

(* The first position of a non-empty set in catalog order *)
FirstPosition(S) ==
  CHOOSE p \in S :
    \A q \in S : p[1] < q[1] \/ (p[1] = q[1] /\ p[2] <= q[2])

(* C32: the second pass (groups whose key contains the runtime's version   *)
(* or display name) is consulted only if the first pass (groups keyed      *)
(* exactly by the runtime's identifier or display name) found no device in *)
(* any group: the device returned is the first hit of the first pass if it *)
(* has one, wherever its group stands in the catalog, and the first hit of *)
(* the second pass otherwise.                                              *)
C32_SecondPassOnlyAfterFirst ==
  (Resolved /\ matchingRuntime # 0 /\ cachedDevices # Null) =>
    LET devices == cachedDevices[1]
        rt == Catalog[matchingRuntime]
        exact == ExactHits(devices, rt)
        loose == LooseHits(devices, rt)
    IN /\ exact # {} =>
            deviceId = DeviceAt(devices, FirstPosition(exact)).udid
       /\ (exact = {} /\ loose # {}) =>
            deviceId = DeviceAt(devices, FirstPosition(loose)).udid
       /\ (exact = {} /\ loose = {}) => deviceId = Null /\ error = "Soft"

(* A group whose key only contains the display name comes first and holds  *)
(* the device; the device of the exactly keyed group after it is returned. *)
C32_Witness ==
  /\ Resolved
  /\ matchingRuntime = 1
  /\ Catalog = <<Rt170>>
  /\ cachedDevices = Some(<<Group(3, 1), Group(1, 1)>>)
  /\ LooseHits(cachedDevices[1], Rt170) = {<<1, 1>>}
  /\ ExactHits(cachedDevices[1], Rt170) = {<<2, 1>>}
  /\ deviceId = <<1, 1>>

(* The post-boot commands of the call *)
Commands == IF spawnCommands = Null THEN <<>> ELSE spawnCommands[1]

(* The invocations of the repetitions: all but the recovery shutdown *)
RegularOps == SelectSeq(ops, LAMBDA o : ~IsRecovery(o))

(* The number of post-boot commands of repetition r executed before        *)
(* position k of a list of invocations                                     *)
SpawnsBefore(s, k, r) ==
  Cardinality({j \in 1..(k - 1) : s[j].op = "spawn" /\ s[j].rep = r})

(* The step that follows the successful invocation at position k of s *)
StepAfter(s, k) ==
  LET o == s[k]
  IN CASE o.op = "erase" -> [op |-> "boot", rep |-> o.rep]
       [] o.op = "boot" ->
            [op |-> IF Commands # <<>> THEN "spawn" ELSE "launch",
             rep |-> o.rep]
       [] o.op = "spawn" ->
            [op |-> IF SpawnsBefore(s, k + 1, o.rep) < Len(Commands)
                    THEN "spawn" ELSE "launch",
             rep |-> o.rep]
       [] o.op = "launch" -> [op |-> "shutdown", rep |-> o.rep]
       [] o.op = "shutdown" -> [op |-> "erase", rep |-> o.rep + 1]

(* The idle-waits of the call that have returned *)
IdleWaits == Len(measurements)

(* C33: within a combination the operations occur in the order resolve,    *)
(* then per repetition erase, boot, post-boot commands, launch, idle-wait, *)
(* shutdown: the first invocation is the erase of repetition 0 on the      *)
(* device resolved, every later one is the step that follows a successful  *)
(* invocation before it (the erase of the next repetition after a          *)
(* successful shutdown), and the idle-wait runs between the successful     *)
(* launch and the shutdown of its repetition.                              *)
C33_FixedStepOrder ==
  LET s == RegularOps
  IN /\ s # <<>> =>
          /\ resolutions # <<>>
          /\ Last(resolutions).err = "none"
          /\ s[1].op = "erase" /\ s[1].rep = 0
     /\ \A k \in 2..Len(s) :
          /\ s[k - 1].res = "ok"
          /\ s[k].op = StepAfter(s, k - 1).op
          /\ s[k].rep = StepAfter(s, k - 1).rep
     /\ \A k \in 1..Len(s) :
          s[k].op = "shutdown" =>
            /\ IdleWaits >= s[k].rep + 1
            /\ s[k - 1].op = "launch"
     /\ pc = "idle" =>
          /\ Last(s).op = "launch" /\ Last(s).res = "ok" /\ Last(s).rep = i
          /\ IdleWaits = i
     /\ IdleWaits <= Cardinality({k \in 1..Len(s) :
                                    s[k].op = "launch" /\ s[k].res = "ok"})

(* Two repetitions with two post-boot commands each have run in order and  *)
(* the second shutdown has succeeded.                                      *)
C33_Witness ==
  /\ Commands = <<"c1", "c2">>
  /\ Len(RegularOps) = 12
  /\ [k \in 1..12 |-> RegularOps[k].op] =
       <<"erase", "boot", "spawn", "spawn", "launch", "shutdown",
         "erase", "boot", "spawn", "spawn", "launch", "shutdown">>
  /\ Last(ops).res = "ok"
  /\ IdleWaits = 2

(* The positions in ops of the post-boot commands of repetition r, in the  *)
(* order of their execution                                                *)
SpawnPositions(r) ==
  SelectSeq([k \in 1..Len(ops) |-> k],
            LAMBDA k : ops[k].op = "spawn" /\ ops[k].rep = r)

(* C34: with a non-empty list of post-boot commands the commands of a      *)
(* repetition are executed one at a time in list order, the first after    *)
(* the successful boot and each later one after the success of the one     *)
(* before it, and the launch follows the success of the last one; when a   *)
(* command fails, no later command, no launch and no idle-wait of the      *)
(* repetition is executed, the error is Hard, only the recovery shutdown   *)
(* follows and the call returns null.                                      *)
C34_CommandsInOrderThenFatal ==
  Commands # <<>> =>
    /\ \A r \in 0..MaxRuns :
         LET at == SpawnPositions(r)
         IN /\ Len(at) <= Len(Commands)
            /\ \A j \in 1..Len(at) :
                 /\ ops[at[j]].command = Commands[j]
                 /\ at[j] > 1
                 /\ ops[at[j] - 1].res = "ok"
                 /\ ops[at[j] - 1].rep = r
                 /\ ops[at[j] - 1].op = (IF j = 1 THEN "boot" ELSE "spawn")
            /\ \A k \in 1..Len(ops) :
                 (ops[k].op = "launch" /\ ops[k].rep = r) =>
                   /\ Len(at) = Len(Commands)
                   /\ at[Len(at)] = k - 1
                   /\ \A j \in 1..Len(at) : ops[at[j]].res = "ok"
    /\ \A k \in 1..Len(ops) :
         (ops[k].op = "spawn" /\ ops[k].res # "ok") =>
           /\ error = "Hard"
           /\ \A n \in (k + 1)..Len(ops) : IsRecovery(ops[n])
           /\ Len(ops) <= k + 1
           /\ IdleWaits = ops[k].rep
           /\ pc \in {"catch", "recovery", "loop", "finally", "done"}
           /\ RunnerEnded => Last(outcomes) = "null"

(* The first of two commands succeeded in the second repetition and the    *)
(* second failed: the recovery shutdown followed and the call has returned *)
(* null.                                                                   *)
C34_Witness ==
  /\ Commands = <<"c1", "c2">>
  /\ RunnerEnded
  /\ Len(ops) = 11
  /\ [k \in 7..11 |-> ops[k].op] =
       [k \in 7..11 |-> <<"erase", "boot", "spawn", "spawn", "shutdown">>[k - 6]]
  /\ ops[9].command = "c1" /\ ops[9].res = "ok"
  /\ ops[10].command = "c2" /\ ops[10].res = "throw"
  /\ IsRecovery(ops[11])
  /\ outcomes = <<"null">>

----------------------------------------------------------------------------
(* simctl.ts: executeCommand, step by step. call holds the frame of the    *)
(* call (null while executeCommand is not running): its arguments, what    *)
(* the spawned process gave and the error caught by its catch clause.      *)

MaxExitCode == 2

CommandPool == {"c1", "c2", "c3 -x"}

OutputPool == {"", "text"}

(* What process.output() can give: an exception, or an exit status with    *)
(* the two output streams                                                  *)
ProcessOutputs ==
  {[threw |-> TRUE, code |-> 0, stdout |-> "", stderr |-> ""]}
    \cup [threw : {FALSE}, code : 0..MaxExitCode, stdout : OutputPool,
          stderr : OutputPool]

(* The outcome of an invocation as the runner's model names it *)
OutcomeOf(output) ==
  IF output.threw THEN "throw" ELSE IF output.code = 0 THEN "ok" ELSE "fail"

IsSimulatorError(e) == e \in {"Hard", "Soft"}

(* The try block: the process is spawned and awaited; a non-zero exit      *)
(* status throws the error chosen by critical, inside the try block.       *)
ExecuteCommandTry ==
  /\ pc = "exec"
  /\ \E output \in ProcessOutputs :
       LET thrown == IF output.threw THEN "Other"
                     ELSE IF output.code = 0 THEN "none"
                     ELSE IF call[1].critical THEN "Hard" ELSE "Soft"
       IN /\ call' = Some([call[1] EXCEPT !.output = Some(output),
                                          !.caught = thrown])
          /\ pc' = IF thrown = "none" THEN "exec-returned" ELSE "exec-catch"
  /\ UNCHANGED <<inputs, cmdVars, cacheVars, timeVars, matchingRuntime,
                 deviceId, i, waitSecs, ci, error, ops, inFlight, sleeps>>

(* Mutant: the catch clause re-throws whatever it caught. *)
ExecuteCommandCatchRethrowsAll ==
  /\ pc = "exec-catch"
  /\ error' = call[1].caught
  /\ pc' = "exec-thrown"
  /\ UNCHANGED <<inputs, cmdVars, cacheVars, timeVars, matchingRuntime,
                 deviceId, i, waitSecs, ci, ops, inFlight, call, sleeps>>

(* The catch clause: a SimulatorError is re-thrown, any other error is     *)
(* replaced by the error chosen by critical.                               *)
ExecuteCommandCatch ==
  /\ pc = "exec-catch"
  /\ error' = IF IsSimulatorError(call[1].caught) THEN call[1].caught
              ELSE IF call[1].critical THEN "Hard" ELSE "Soft"
  /\ pc' = "exec-thrown"
  /\ UNCHANGED <<inputs, cmdVars, cacheVars, timeVars, matchingRuntime,
                 deviceId, i, waitSecs, ci, ops, inFlight, call, sleeps>>

(* executeCommand is about to run for a command and a critical flag; the   *)
(* command around it is not running and its arguments hold placeholders.   *)
InitExecute ==
  /\ pc = "exec"
  /\ flags = Null
  /\ iosVersions = <<>>
  /\ deviceNames = <<>>
  /\ runCount = 0
  /\ idleThreshold = 0
  /\ idleTimeout = 0
  /\ spawnCommands = Null
  /\ host = Host(<<Rt170>>, <<Group(1, 1)>>, {1000}, {1}, {0})
  /\ vi = 1
  /\ di = 1
  /\ results = <<>>
  /\ outcomes = <<>>
  /\ printed = "no"
  /\ tables = <<>>
  /\ cachedRuntimes = Null
  /\ cachedDevices = Null
  /\ fetches = [runtimes |-> 0, devices |-> 0]
  /\ resolutions = <<>>
  /\ matchingRuntime = 0
  /\ deviceId = Null
  /\ i = 0
  /\ waitSecs = 0
  /\ ci = 0
  /\ totalBootTimeMs = 0
  /\ totalTimeToIdleMs = 0
  /\ bootTime = 0
  /\ elapsed = 0
  /\ isIdle = FALSE
  /\ oneMinuteLoad = 0
  /\ measurements = <<>>
  /\ error = "none"
  /\ ops = <<>>
  /\ inFlight = {}
  /\ sleeps = <<>>
  /\ \E command \in CommandPool, critical \in BOOLEAN :
       call = Some([command |-> command, critical |-> critical,
                    output |-> Null, caught |-> "none"])

NextExecute ==
  \/ ExecuteCommandTry
  \/ ExecuteCommandCatch

SpecExecute == InitExecute /\ [][NextExecute]_vars

ExecuteCommandEnded == call # Null /\ pc \in {"exec-returned", "exec-thrown"}

(* C35: executeCommand classifies a failure by its critical flag alone:    *)
(* with critical = true a non-zero exit status and an exception while      *)
(* spawning both end the call with a Hard error, with critical = false     *)
(* both end it with a Soft error, an error of neither class never leaves   *)
(* the call, and a zero exit status ends it without an error, whatever the *)
(* command and its output are.                                             *)
C35_ClassifiedByCriticalAlone ==
  ExecuteCommandEnded =>
    LET c == call[1]
        output == c.output[1]
        failed == output.threw \/ output.code # 0
    IN /\ failed =>
            /\ pc = "exec-thrown"
            /\ error = (IF c.critical THEN "Hard" ELSE "Soft")
       /\ ~failed => pc = "exec-returned" /\ error = "none"
       /\ error = ExecuteCommand(OutcomeOf(output), c.critical)

(* The spawn threw with critical = false: the call ended with a Soft       *)
(* error.                                                                  *)
C35_Witness ==
  /\ ExecuteCommandEnded
  /\ ~call[1].critical
  /\ call[1].output[1].threw
  /\ call[1].caught = "Other"
  /\ error = "Soft"

----------------------------------------------------------------------------
(* The stabilization wait *)

(* The sleeps of the stabilization wait before repetition r *)
SleepsBefore(r) == SelectSeq(sleeps, LAMBDA w : w.rep = r)

(* The stabilization waits of the call that have begun: the repetitions    *)
(* that have a sleep                                                       *)
StabilizationWaits == {sleeps[k].rep : k \in 1..Len(sleeps)}

SumSecs(ws) == SumOver([k \in 1..Len(ws) |-> ws[k].secs], Len(ws))

SumSamples(ws) == SumOver([k \in 1..Len(ws) |-> ws[k].samples], Len(ws))

EraseIssued(r) == \E k \in 1..Len(ops) : ops[k].op = "erase" /\ ops[k].rep = r

(* C36: the erase of every repetition but the first comes after a          *)
(* stabilization wait of exactly six sleeps of 10 seconds, each with one   *)
(* load sample, whatever the samples are; no wait comes before the first   *)
(* repetition; and a call that returns a result has made exactly           *)
(* runCount - 1 stabilization waits.                                       *)
C36_StabilizationWaits ==
  /\ \A r \in 0..MaxRuns :
       LET ws == SleepsBefore(r)
       IN /\ r = 0 => ws = <<>>
          /\ Len(ws) <= 6
          /\ \A k \in 1..Len(ws) : ws[k].secs = 10 /\ ws[k].samples = 1
          /\ (r > 0 /\ (EraseIssued(r) \/ (pc = "erase" /\ i = r))) =>
               /\ Len(ws) = 6
               /\ SumSecs(ws) = 60
               /\ SumSamples(ws) = 6
  /\ pc = "stabilize" => i > 0 /\ i < runCount
  /\ LastCallGaveResult => Cardinality(StabilizationWaits) = runCount - 1

(* --runs 0: the call returned a result and made no stabilization wait,    *)
(* where runCount - 1 is -1.                                               *)
C36_Witness ==
  /\ RunnerEnded
  /\ runCount = 0
  /\ outcomes = <<"result">>
  /\ sleeps = <<>>
  /\ ops = <<>>

----------------------------------------------------------------------------
(* The result list *)

(* C37: at every point the result list holds one result for each call of   *)
(* runBootBenchmark that returned a result and none for the calls that     *)
(* returned null or threw, in the order of the calls (versions in the      *)
(* outer loop, devices in the inner loop); it has at most as many entries  *)
(* as there are combinations, it only grows at its end, and it is the list *)
(* the reporter prints.                                                    *)
C37_OneResultPerSuccess ==
  /\ [](/\ Len(results) = Count(outcomes, "result")
        /\ \A k \in 1..Len(results) :
             /\ results[k].iosVersion = VersionOf(Succeeded[k])
             /\ results[k].deviceName = DeviceOf(Succeeded[k])
        /\ \A j, k \in 1..Len(results) : j < k => Succeeded[j] < Succeeded[k]
        /\ Len(results) <= Len(outcomes)
        /\ Len(outcomes) <= NumCombinations
        /\ printed = "table" =>
             tables = PrintBenchmarkSummary(results, deviceNames))
  /\ [][\/ results' = results
        \/ /\ Len(results') = Len(results) + 1
           /\ SubSeq(results', 1, Len(results)) = results
           /\ outcomes' = Append(outcomes, "result")]_vars

(* Of four combinations the first and the third returned a result, the     *)
(* second and the fourth returned null: the list holds the two results in  *)
(* that order.                                                             *)
C37_Witness ==
  /\ pc = "done"
  /\ iosVersions = <<V17, V170>>
  /\ deviceNames = <<"iPhone 11", "iPhone 15">>
  /\ outcomes = <<"result", "null", "result", "null">>
  /\ Len(results) = 2
  /\ results[1].iosVersion = V17 /\ results[1].deviceName = "iPhone 11"
  /\ results[2].iosVersion = V170 /\ results[2].deviceName = "iPhone 11"

----------------------------------------------------------------------------
(* Shutdown after boot *)

(* C38: when a call of runBootBenchmark has ended, by a result, by null or *)
(* by an error it let through, every boot invocation of the call that      *)
(* succeeded is followed by a shutdown invocation, regular or recovery.    *)
C38_ShutdownAfterBoot ==
  RunnerEnded =>
    \A k \in 1..Len(ops) :
      (ops[k].op = "boot" /\ ops[k].res = "ok") =>
        \E n \in (k + 1)..Len(ops) : ops[n].op = "shutdown"

(* The boot succeeded, the launch raised an exception that is not a        *)
(* simulator error, and the call ended by re-throwing it without a         *)
(* shutdown.                                                               *)
C38_Witness ==
  /\ RunnerEnded
  /\ Last(outcomes) = "threw"
  /\ error = "Other"
  /\ Len(ops) >= 3
  /\ ops[2].op = "boot" /\ ops[2].res = "ok"
  /\ Last(ops).op = "launch" /\ Last(ops).res = "throw"
  /\ \A k \in 1..Len(ops) : ops[k].op # "shutdown"

----------------------------------------------------------------------------
(* The device of a combination *)

(* The position in the combination loop of the call that ops belongs to *)
CurrentCall == Len(resolutions)

TargetsDevice(o) ==
  o.op \in {"erase", "boot"} \/ (o.op = "shutdown" /\ ~IsRecovery(o))

(* C39: every erase, boot and regular shutdown invocation of a call        *)
(* targets the identifier that getDeviceId returned at the start of that   *)
(* call, for the version and the device of that call, and not the one of   *)
(* an earlier call.                                                        *)
C39_TargetsResolvedDevice ==
  ops # <<>> =>
    /\ CurrentCall \in {Len(outcomes), Len(outcomes) + 1}
    /\ RunnerEnded <=> CurrentCall = Len(outcomes)
    /\ resolutions[CurrentCall].err = "none"
    /\ resolutions[CurrentCall].iosVersion = VersionOf(CurrentCall)
    /\ resolutions[CurrentCall].deviceName = DeviceOf(CurrentCall)
    /\ \A k \in 1..Len(ops) :
         TargetsDevice(ops[k]) => ops[k].id = resolutions[CurrentCall].udid
    /\ \E k \in 1..Len(ops) : TargetsDevice(ops[k])

(* The first call resolved one device, the second call another one; the    *)
(* erase, the boot and the shutdown of the second call target the second.  *)
C39_Witness ==
  /\ CurrentCall = 2
  /\ resolutions[1].err = "none"
  /\ resolutions[2].err = "none"
  /\ resolutions[1].udid # resolutions[2].udid
  /\ Len(ops) = 4
  /\ ops[4].op = "shutdown" /\ ~IsRecovery(ops[4])
  /\ \A k \in {1, 2, 4} : ops[k].id = resolutions[2].udid

----------------------------------------------------------------------------
(* Termination of the command *)

(* Every invocation and every sleep returns: the program takes its next    *)
(* step whenever it has one.                                               *)
SpecFair == Spec /\ WF_vars(Next)

(* The reporting step has run: the summary or the no-results notice *)
Reported == pc = "done" /\ printed \in {"table", "notice"}

(* C40 as stated: the command eventually reaches its reporting step.       *)
C40_CommandReports == <>Reported

(* C40: once the command has entered its combination loop (the lists are   *)
(* not empty and the runtimes were listed), it eventually reaches its      *)
(* reporting step, whatever Soft, Hard and unexpected errors the calls of  *)
(* the loop end with; and what it has reported stays.                      *)
C40_LoopEndsInReport ==
  /\ (pc = "loop") ~> Reported
  /\ [][Reported => Reported' /\ printed' = printed]_vars

(* The command has reported after a call that gave a result, a call that   *)
(* returned null after a Hard error and a call that threw.                 *)
C40_Witness ==
  /\ Reported
  /\ printed = "table"
  /\ outcomes = <<"result", "null", "threw">>
  /\ error = "Other"
  /\ NumCombinations = 4

====
